---- MODULE Spec2Model ----
(***************************************************************************)
(* mantee: a TUI man page viewer.  Model of the Viewer state machine       *)
(* (Update and its handlers), the match predicates of Section and the      *)
(* line scanners parseOptionSections / parseManSections.                   *)
(*                                                                         *)
(* Conventions.  A Go string is a sequence of one-character strings.  Go   *)
(* indices (cursors, line numbers, section indices) keep their 0-based     *)
(* values; a Go access s[i] is written s[i + 1].  A nil slice is <<>>.     *)
(* The Viewer struct is the record v; a method with a value receiver is an *)
(* operator from the record (and the key) to the record it returns, a      *)
(* method with a pointer receiver an operator to the mutated record.       *)
(***************************************************************************)
EXTENDS Integers, Sequences, FiniteSets, TLC

\* ------------------------------------------------------------------------
\* Bounds of the model
\* ------------------------------------------------------------------------

\* Window heights a WindowSizeMsg may carry: MinHeight..MaxHeight.
MinHeight == 4
MaxHeight == 6

\* The longest page, in lines, the scanners are run on.
MaxLines == 4

\* The most pages a search of the manual index returns.
MaxPages == 4

\* ------------------------------------------------------------------------
\* Go built-ins
\* ------------------------------------------------------------------------

\* Go's integer division truncates toward zero (TLA+'s \div floors).
GoDiv(a, b) == IF a >= 0 THEN a \div b ELSE -((-a) \div b)

Upper == <<"A","B","C","D","E","F","G","H","I","J","K","L","M",
           "N","O","P","Q","R","S","T","U","V","W","X","Y","Z">>
Lower == <<"a","b","c","d","e","f","g","h","i","j","k","l","m",
           "n","o","p","q","r","s","t","u","v","w","x","y","z">>
Digit == {"0","1","2","3","4","5","6","7","8","9"}

IsUpper(c) == \E i \in 1..26 : Upper[i] = c
IsLower(c) == \E i \in 1..26 : Lower[i] = c
IsLetter(c) == IsUpper(c) \/ IsLower(c)
\* \w of Go's regexp: [0-9A-Za-z_]
IsWord(c) == IsLetter(c) \/ c \in Digit \/ c = "_"
\* \s of Go's regexp and the white space strings.TrimSpace removes
IsSpace(c) == c \in {" ", "\t", "\n", "\r", "\f"}
\* the cutset " \t" of strings.TrimLeft(line, " \t")
IsBlankOrTab(c) == c \in {" ", "\t"}

\* strings.ToLower, one character
LowerChar(c) == IF IsUpper(c) THEN Lower[CHOOSE i \in 1..26 : Upper[i] = c] ELSE c
\* strings.ToLower
ToLower(s) == [i \in 1..Len(s) |-> LowerChar(s[i])]

\* s[from:] begins with sub (from is 0-based)
HasPrefixAt(s, sub, from) ==
    /\ from + Len(sub) <= Len(s)
    /\ \A i \in 1..Len(sub) : s[from + i] = sub[i]

\* strings.HasPrefix
HasPrefix(s, prefix) == HasPrefixAt(s, prefix, 0)

\* strings.Contains
Contains(s, sub) == \E from \in 0..Len(s) : HasPrefixAt(s, sub, from)

\* number of leading characters of s that satisfy the test
RECURSIVE LeadingSpace(_)
LeadingSpace(s) ==
    IF s # <<>> /\ IsSpace(Head(s)) THEN 1 + LeadingSpace(Tail(s)) ELSE 0

RECURSIVE TrailingSpace(_)
TrailingSpace(s) ==
    IF s # <<>> /\ IsSpace(s[Len(s)])
    THEN 1 + TrailingSpace(SubSeq(s, 1, Len(s) - 1)) ELSE 0

\* strings.TrimSpace
TrimSpace(s) ==
    IF LeadingSpace(s) = Len(s) THEN <<>>
    ELSE SubSeq(s, LeadingSpace(s) + 1, Len(s) - TrailingSpace(s))

\* len(line) - len(strings.TrimLeft(line, " \t"))
RECURSIVE Indent(_)
Indent(s) ==
    IF s # <<>> /\ IsBlankOrTab(Head(s)) THEN 1 + Indent(Tail(s)) ELSE 0

\* strings.TrimLeft(s, "-")
RECURSIVE TrimLeftDash(_)
TrimLeftDash(s) ==
    IF s # <<>> /\ Head(s) = "-" THEN TrimLeftDash(Tail(s)) ELSE s

\* strings.Join(elems, " ")
RECURSIVE JoinSpace(_)
JoinSpace(elems) ==
    IF elems = <<>> THEN <<>>
    ELSE IF Len(elems) = 1 THEN elems[1]
    ELSE elems[1] \o <<" ">> \o JoinSpace(Tail(elems))

\* strings.FieldsFunc(s, r == ',' || r == ' '): the maximal runs of
\* characters that are neither a comma nor a space, in order
IsFieldSep(c) == c = "," \/ c = " "

RECURSIVE FieldsFrom(_, _, _)
FieldsFrom(s, i, cur) ==
    IF i > Len(s) THEN (IF cur = <<>> THEN <<>> ELSE <<cur>>)
    ELSE IF IsFieldSep(s[i])
         THEN (IF cur = <<>> THEN <<>> ELSE <<cur>>) \o FieldsFrom(s, i + 1, <<>>)
         ELSE FieldsFrom(s, i + 1, Append(cur, s[i]))

FieldsFunc(s) == FieldsFrom(s, 1, <<>>)

\* ------------------------------------------------------------------------
\* Segmentation: parseOptionSections and parseManSections
\* ------------------------------------------------------------------------

maxOptionLineLength == 60

\* s[i] for a 1-based i, "" outside the string
At(s, i) == IF i \in 1..Len(s) THEN s[i] ELSE ""

\* mutant: the lead-in is 5 to 6 white-space characters instead of 5 to 8
optionDefRe_NarrowIndent(line) ==
    \E n \in 5..6 :
        /\ Len(line) >= n + 2
        /\ \A i \in 1..n : IsSpace(line[i])
        /\ line[n + 1] = "-" /\ ~IsSpace(line[n + 2])

\* optionDefRe: ^(\s{5,8})(-\S|--[a-zA-Z][-a-zA-Z0-9]*)
\* (the second alternative begins with a dash followed by a non-space, so
\* every line it matches is matched by the first)
optionDefRe(line) ==
    \E n \in 5..8 :
        /\ Len(line) >= n + 2
        /\ \A i \in 1..n : IsSpace(line[i])
        /\ \/ line[n + 1] = "-" /\ ~IsSpace(line[n + 2])
           \/ /\ line[n + 1] = "-" /\ line[n + 2] = "-"
              /\ IsLetter(At(line, n + 3))

\* length of the run of \w (resp. \s) characters of s that starts at i
RECURSIVE WordRun(_, _)
WordRun(s, i) == IF IsWord(At(s, i)) THEN 1 + WordRun(s, i + 1) ELSE 0

RECURSIVE SpaceRun(_, _)
SpaceRun(s, i) == IF IsSpace(At(s, i)) THEN 1 + SpaceRun(s, i + 1) ELSE 0

\* --\w+ at position i: the position after it, or 0 when it does not match
LongToken(s, i) ==
    IF At(s, i) = "-" /\ At(s, i + 1) = "-" /\ WordRun(s, i + 2) >= 1
    THEN i + 2 + WordRun(s, i + 2) ELSE 0

\* --\w+,\s+ at position i: the position after it, or 0
LongTokenComma(s, i) ==
    LET a == LongToken(s, i) IN
    IF a # 0 /\ At(s, a) = "," /\ SpaceRun(s, a + 1) >= 1
    THEN a + 1 + SpaceRun(s, a + 1) ELSE 0

\* multiOptionListRe: --\w+,\s+--\w+,\s+--\w+ found anywhere in s
multiOptionListRe(s) ==
    \E p \in 1..Len(s) :
        LET b == LongTokenComma(s, p) IN
        /\ b # 0
        /\ LET c == LongTokenComma(s, b) IN
           c # 0 /\ LongToken(s, c) # 0

\* sectionHeaderRe: ^[A-Z][A-Z ]+$
sectionHeaderRe(s) ==
    /\ Len(s) >= 2
    /\ IsUpper(s[1])
    /\ \A i \in 2..Len(s) : IsUpper(s[i]) \/ s[i] = " "

\* the look-ahead of the explanation loop: the first j >= i whose line is
\* not blank, or len(lines)   (i, j are 0-based)
RECURSIVE SkipBlank(_, _)
SkipBlank(lines, j) ==
    IF j < Len(lines) /\ TrimSpace(lines[j + 1]) = <<>>
    THEN SkipBlank(lines, j + 1) ELSE j

\* mutant: a blank run is consumed whenever the next text is deeper than
\* the option line at all
RECURSIVE collectExplanation_AnyDeeperContinues(_, _, _, _)
collectExplanation_AnyDeeperContinues(lines, i, optionIndent, explanationLines) ==
    LET stop == [i |-> i, explanationLines |-> explanationLines] IN
    IF i >= Len(lines) THEN stop
    ELSE LET nextLine == lines[i + 1] IN
         IF TrimSpace(nextLine) = <<>>
         THEN LET j == SkipBlank(lines, i + 1) IN
              IF /\ j < Len(lines)
                 /\ Indent(lines[j + 1]) > optionIndent
                 /\ ~optionDefRe(lines[j + 1])
              THEN collectExplanation_AnyDeeperContinues(lines, i + 1, optionIndent,
                                      Append(explanationLines, <<>>))
              ELSE stop
         ELSE IF optionDefRe(nextLine) \/ sectionHeaderRe(TrimSpace(nextLine))
         THEN stop
         ELSE IF Indent(nextLine) <= optionIndent
         THEN stop
         ELSE collectExplanation_AnyDeeperContinues(lines, i + 1, optionIndent,
                                 Append(explanationLines, TrimSpace(nextLine)))

\* the inner loop of parseOptionSections: collects the explanation lines
\* from line i on; returns the index it stops at and the collected lines
RECURSIVE collectExplanation(_, _, _, _)
collectExplanation(lines, i, optionIndent, explanationLines) ==
    LET stop == [i |-> i, explanationLines |-> explanationLines] IN
    IF i >= Len(lines) THEN stop
    ELSE LET nextLine == lines[i + 1] IN
         IF TrimSpace(nextLine) = <<>>
         THEN LET j == SkipBlank(lines, i + 1) IN
              IF /\ j < Len(lines)
                 /\ Indent(lines[j + 1]) > optionIndent + 2
                 /\ ~optionDefRe(lines[j + 1])
              THEN collectExplanation(lines, i + 1, optionIndent,
                                      Append(explanationLines, <<>>))
              ELSE stop
         ELSE IF optionDefRe(nextLine) \/ sectionHeaderRe(TrimSpace(nextLine))
         THEN stop
         ELSE IF Indent(nextLine) <= optionIndent
         THEN stop
         ELSE collectExplanation(lines, i + 1, optionIndent,
                                 Append(explanationLines, TrimSpace(nextLine)))

\* mutant: a line that is a list of long options is skipped without
\* advancing the scan index
scanIteration_ListLineStalls(lines, i, sections) ==
    LET line == lines[i + 1]
        trimmed == TrimSpace(line)
        skip == [i |-> i + 1, sections |-> sections]
    IN
    IF ~optionDefRe(line) THEN skip
    ELSE IF Len(trimmed) = 0 \/ trimmed[1] # "-" THEN skip
    ELSE IF Len(trimmed) > maxOptionLineLength THEN skip
    ELSE IF multiOptionListRe(trimmed) THEN [i |-> i, sections |-> sections]
    ELSE LET r == collectExplanation(lines, i + 1, Indent(line), <<>>)
             section == [Option      |-> trimmed,
                         Explanation |-> JoinSpace(r.explanationLines),
                         StartLine   |-> i,
                         EndLine     |-> r.i - 1]
         IN [i |-> r.i,
             sections |->
                 IF section.Option # <<>> /\ HasPrefix(section.Option, <<"-">>)
                 THEN Append(sections, section) ELSE sections]

\* mutant: the length limit is applied to the line as read, lead-in included
scanIteration_LengthOfRawLine(lines, i, sections) ==
    LET line == lines[i + 1]
        trimmed == TrimSpace(line)
        skip == [i |-> i + 1, sections |-> sections]
    IN
    IF ~optionDefRe(line) THEN skip
    ELSE IF Len(trimmed) = 0 \/ trimmed[1] # "-" THEN skip
    ELSE IF Len(line) > maxOptionLineLength THEN skip
    ELSE IF multiOptionListRe(trimmed) THEN skip
    ELSE LET r == collectExplanation(lines, i + 1, Indent(line), <<>>)
             section == [Option      |-> trimmed,
                         Explanation |-> JoinSpace(r.explanationLines),
                         StartLine   |-> i,
                         EndLine     |-> r.i - 1]
         IN [i |-> r.i,
             sections |->
                 IF section.Option # <<>> /\ HasPrefix(section.Option, <<"-">>)
                 THEN Append(sections, section) ELSE sections]

\* one iteration of the outer loop of parseOptionSections at scan index
\* i < len(lines): the scan index and the sections it leaves
scanIteration(lines, i, sections) ==
    LET line == lines[i + 1]
        trimmed == TrimSpace(line)
        skip == [i |-> i + 1, sections |-> sections]
    IN
    IF ~optionDefRe(line) THEN skip
    ELSE IF Len(trimmed) = 0 \/ trimmed[1] # "-" THEN skip
    ELSE IF Len(trimmed) > maxOptionLineLength THEN skip
    ELSE IF multiOptionListRe(trimmed) THEN skip
    ELSE LET r == collectExplanation(lines, i + 1, Indent(line), <<>>)
             section == [Option      |-> trimmed,
                         Explanation |-> JoinSpace(r.explanationLines),
                         StartLine   |-> i,
                         EndLine     |-> r.i - 1]
         IN [i |-> r.i,
             sections |->
                 IF section.Option # <<>> /\ HasPrefix(section.Option, <<"-">>)
                 THEN Append(sections, section) ELSE sections]

\* the outer loop of parseOptionSections from scan index i
RECURSIVE parseOptionSectionsFrom(_, _, _)
parseOptionSectionsFrom(lines, i, sections) ==
    IF i >= Len(lines) THEN sections
    ELSE LET next == scanIteration(lines, i, sections)
         IN parseOptionSectionsFrom(lines, next.i, next.sections)

\* mutant: EndLine is the scan index itself, one past the section's last line
parseOptionSections_EndLinePastEnd(lines) ==
    LET sections == parseOptionSectionsFrom(lines, 0, <<>>)
    IN [k \in 1..Len(sections) |-> [sections[k] EXCEPT !.EndLine = @ + 1]]

parseOptionSections(lines) == parseOptionSectionsFrom(lines, 0, <<>>)

RECURSIVE parseManSectionsFrom(_, _, _)
parseManSectionsFrom(lines, i, sections) ==
    IF i >= Len(lines) THEN sections
    ELSE LET trimmed == TrimSpace(lines[i + 1]) IN
         IF trimmed # <<>> /\ sectionHeaderRe(trimmed)
         THEN parseManSectionsFrom(lines, i + 1,
                  Append(sections, [Name |-> trimmed, StartLine |-> i]))
         ELSE parseManSectionsFrom(lines, i + 1, sections)

parseManSections(lines) == parseManSectionsFrom(lines, 0, <<>>)

\* ------------------------------------------------------------------------
\* Match predicates of Section
\* ------------------------------------------------------------------------

\* mutant: only the Option text is searched
MatchesQuery_OptionOnly(s, query) ==
    \/ query = <<>>
    \/ Contains(ToLower(s.Option), ToLower(query))

MatchesQuery(s, query) ==
    \/ query = <<>>
    \/ Contains(ToLower(s.Option), ToLower(query))
    \/ Contains(ToLower(s.Explanation), ToLower(query))

\* the first i (0-based) with option[i] = option[i+1] = ' ', or -1
RECURSIVE DoubleSpaceFrom(_, _)
DoubleSpaceFrom(option, i) ==
    IF i >= Len(option) - 1 THEN -1
    ELSE IF option[i + 1] = " " /\ option[i + 2] = " " THEN i
    ELSE DoubleSpaceFrom(option, i + 1)

extractOptionFlags(option) ==
    LET i == DoubleSpaceFrom(option, 0) IN
    IF i >= 0 THEN TrimSpace(SubSeq(option, 1, i)) ELSE option

\* mutant: the whole Option is searched, inline description included
MatchesOption_WholeLine(s, query) ==
    \/ query = <<>>
    \/ Contains(ToLower(s.Option), ToLower(query))

MatchesOption(s, query) ==
    \/ query = <<>>
    \/ Contains(ToLower(extractOptionFlags(s.Option)), ToLower(query))

\* mutant: the leading dashes of the query are not stripped
MatchesOptionExact_KeepsQueryDashes(s, query) ==
    \/ query = <<>>
    \/ LET parts == FieldsFunc(extractOptionFlags(s.Option))
       IN \E p \in 1..Len(parts) :
              /\ TrimSpace(parts[p]) # <<>>
              /\ TrimLeftDash(TrimSpace(parts[p])) = query

MatchesOptionExact(s, query) ==
    \/ query = <<>>
    \/ LET parts == FieldsFunc(extractOptionFlags(s.Option))
           queryNorm == TrimLeftDash(query)
       IN \E p \in 1..Len(parts) :
              /\ TrimSpace(parts[p]) # <<>>
              /\ TrimLeftDash(TrimSpace(parts[p])) = queryNorm

MatchesDescription(s, query) ==
    \/ query = <<>>
    \/ Contains(ToLower(s.Explanation), ToLower(query))

\* ------------------------------------------------------------------------
\* Documents (the lines FetchManPage hands to the two scanners)
\* ------------------------------------------------------------------------

ScenarioA ==
    << \* '     DESCRIPTION'
       <<" "," "," "," "," ","D","E","S","C","R","I","P","T","I","O","N">>,
       \* '       -r, --recursive   Copy directories recursively.'
       <<" "," "," "," "," "," "," ","-","r",","," ","-","-","r","e","c","u","r","s","i","v","e"," "," "," ","C","o","p","y"," ","d","i","r","e","c","t","o","r","i","e","s"," ","r","e","c","u","r","s","i","v","e","l","y",".">>,
       \* ''
       <<>>,
       \* '       More detail.'
       <<" "," "," "," "," "," "," ","M","o","r","e"," ","d","e","t","a","i","l",".">>,
       \* '       -v   Verbose output.'
       <<" "," "," "," "," "," "," ","-","v"," "," "," ","V","e","r","b","o","s","e"," ","o","u","t","p","u","t",".">> >>

TwoHeadings ==
    << \* 'NAME'
       <<"N","A","M","E">>,
       \* '     -v'
       <<" "," "," "," "," ","-","v">>,
       \* 'OPTIONS'
       <<"O","P","T","I","O","N","S">>,
       \* '     -a, --verbose'
       <<" "," "," "," "," ","-","a",","," ","-","-","v","e","r","b","o","s","e">>,
       \* '          all files'
       <<" "," "," "," "," "," "," "," "," "," ","a","l","l"," ","f","i","l","e","s">> >>

NoHeadings ==
    << \* '     -x'
       <<" "," "," "," "," ","-","x">>,
       \* '        ex'
       <<" "," "," "," "," "," "," "," ","e","x">> >>

Docs == <<TwoHeadings, NoHeadings>>

\* a page of six headings, more than the section selector shows at once
SixHeadings ==
    << <<"S","Y","N","O","P","S","I","S">>,
       <<"O","P","T","I","O","N","S">>,
       <<"F","I","L","E","S">>,
       <<"E","X","I","T">>,
       <<"B","U","G","S">>,
       <<"H","I","S","T","O","R","Y">> >>

\* a page of two options, more than a one-row option list shows at once
TwoOptions ==
    << \* '     -v'
       <<" "," "," "," "," ","-","v">>,
       \* '     -a'
       <<" "," "," "," "," ","-","a">> >>

\* a page of one heading and one option
OneHeading ==
    << \* 'NAME'
       <<"N","A","M","E">>,
       \* '     -v'
       <<" "," "," "," "," ","-","v">> >>

\* the pages whose lists are longer than their windows
ListDocs == <<SixHeadings, TwoOptions>>

\* a page of four options: two flags, flags followed by an inline
\* description, a single flag, and the bare double dash
FlagsPage ==
    << \* '     -L, --location'
       <<" "," "," "," "," ","-","L",","," ","-","-","l","o","c","a","t","i","o","n">>,
       \* '     -r, --recursive   Copy'
       <<" "," "," "," "," ","-","r",","," ","-","-","r","e","c","u","r","s","i","v","e"," "," "," ","C","o","p","y">>,
       \* '     -v'
       <<" "," "," "," "," ","-","v">>,
       \* '     --'
       <<" "," "," "," "," ","-","-">> >>

\* the queries typed against FlagsPage
FlagQueries ==
    { <<>>, <<"L">>, <<"l">>, <<"o","c">>, <<"O","C">>, <<"-","L">>, <<"-","-","l","o","c","a","t","i","o","n">>, <<"l","o","c","a","t","i","o","n">>, <<"L","o","c","a","t","i","o","n">>, <<"-">>, <<"r">>, <<"c","o","p","y">>, <<"C","o","p","y">>, <<"L",",">>, <<"v">> }

\* a page whose options have bodies: one with an inline description, one
\* whose body names another flag
MatchPage ==
    << \* '     -L, --location'
       <<" "," "," "," "," ","-","L",","," ","-","-","l","o","c","a","t","i","o","n">>,
       \* '        Follow redirects'
       <<" "," "," "," "," "," "," "," ","F","o","l","l","o","w"," ","r","e","d","i","r","e","c","t","s">>,
       \* '     -r, --recursive   Copy'
       <<" "," "," "," "," ","-","r",","," ","-","-","r","e","c","u","r","s","i","v","e"," "," "," ","C","o","p","y">>,
       \* '        all Files -v'
       <<" "," "," "," "," "," "," "," ","a","l","l"," ","F","i","l","e","s"," ","-","v">>,
       \* '     -v'
       <<" "," "," "," "," ","-","v">> >>

\* the queries typed over it: empty, flags with and without dashes, words
\* of the bodies and of the inline description in either case, a miss
MatchQueries ==
    { <<>>,
      <<"L">>,
      <<"l">>,
      <<"l","o","c">>,
      <<"-","L">>,
      <<"-","-","l","o","c","a","t","i","o","n">>,
      <<"l","o","c","a","t","i","o","n">>,
      <<"c","o","p","y">>,
      <<"C","o","p","y">>,
      <<"a","l","l">>,
      <<"F","I","L","E","S">>,
      <<"f","o","l","l","o","w">>,
      <<"v">>,
      <<"-","v">>,
      <<"r">>,
      <<"x">> }

\* the kinds of line the scanners tell apart
LineAlphabet ==
    {
      \* '': a blank line
      <<>>,
      \* '     -a': an option at indent 5
      <<" "," "," "," "," ","-","a">>,
      \* '        x': text at indent 8
      <<" "," "," "," "," "," "," "," ","x">>,
      \* '     y': text at indent 5
      <<" "," "," "," "," ","y">>,
      \* 'AB': a heading
      <<"A","B">>,
      \* 'A': one uppercase letter
      <<"A">>,
      \* '  A B ': a heading with an inner space, surrounded by white space
      <<" "," ","A"," ","B"," ">>,
      \* 'Ab': a word of mixed case
      <<"A","b">>
    }

\* the pages of 1..MaxLines such lines (strings.Split returns at least one)
LineSeqs == UNION { [1..n -> LineAlphabet] : n \in 1..MaxLines }

\* the kinds of line the option rule tells apart
OptionLineKinds ==
    {
      \* '': a blank line
      <<>>,
      \* '     -a': an option
      <<" "," "," "," "," ","-","a">>,
      \* '        x': text indented more than the option
      <<" "," "," "," "," "," "," "," ","x">>,
      \* '     --aa, --bb, --cc': a list of three long options
      <<" "," "," "," "," ","-","-","a","a",","," ","-","-","b","b",","," ","-","-","c","c">>,
      \* '     -a, --all xxxx...x': an option line of 60 characters when trimmed
      <<" "," "," "," "," ","-","a",","," ","-","-","a","l","l"," ","x","x","x","x","x","x","x","x","x","x","x","x","x","x","x","x","x","x","x","x","x","x","x","x","x","x","x","x","x","x","x","x","x","x","x","x","x","x","x","x","x","x","x","x","x","x","x","x","x","x">>,
      \* '     -a, --all xxxx...x': an option line of 61 characters when trimmed
      <<" "," "," "," "," ","-","a",","," ","-","-","a","l","l"," ","x","x","x","x","x","x","x","x","x","x","x","x","x","x","x","x","x","x","x","x","x","x","x","x","x","x","x","x","x","x","x","x","x","x","x","x","x","x","x","x","x","x","x","x","x","x","x","x","x","x","x">>
    }

\* the pages of 1..MaxLines such lines
OptionPages == UNION { [1..n -> OptionLineKinds] : n \in 1..MaxLines }

\* the kinds of line the explanation loop tells apart
ExplanationLineKinds ==
    {
      \* '': a blank line
      <<>>,
      \* '     -a': an option at indent 5
      <<" "," "," "," "," ","-","a">>,
      \* '        x': text at indent 8, more than 2 deeper than the option
      <<" "," "," "," "," "," "," "," ","x">>,
      \* '       z': text at indent 7, exactly 2 deeper than the option
      <<" "," "," "," "," "," "," ","z">>,
      \* '     y': text at the option's indent
      <<" "," "," "," "," ","y">>,
      \* '        -b': an option at indent 8
      <<" "," "," "," "," "," "," "," ","-","b">>,
      \* '         AB': a heading at indent 9
      <<" "," "," "," "," "," "," "," "," ","A","B">>
    }

\* the pages of 1..MaxLines such lines
ExplanationPages == UNION { [1..n -> ExplanationLineKinds] : n \in 1..MaxLines }

\* the kinds of line of the pages the order of the sections is checked on
NestedLineKinds ==
    {
      \* '': a blank line
      <<>>,
      \* '     -a': an option at indent 5
      <<" "," "," "," "," ","-","a">>,
      \* '        x': text at indent 8
      <<" "," "," "," "," "," "," "," ","x">>,
      \* '        -b': an option at indent 8
      <<" "," "," "," "," "," "," "," ","-","b">>,
      \* '        AB': two uppercase letters at indent 8
      <<" "," "," "," "," "," "," "," ","A","B">>,
      \* '        A': one uppercase letter at indent 8
      <<" "," "," "," "," "," "," "," ","A">>
    }

\* the pages of 1..MaxLines such lines
NestedPages == UNION { [1..n -> NestedLineKinds] : n \in 1..MaxLines }

\* FetchManPage: the ManPageContent of the lines man printed
FetchManPage(lines) ==
    [Lines       |-> lines,
     Sections    |-> parseOptionSections(lines),
     ManSections |-> parseManSections(lines)]

\* The queries a user types in search mode; the input buffer is always a
\* prefix of one of them.
Queries == { <<"v">>, <<"a","r">> }

QueryPrefixes == UNION { { SubSeq(q, 1, n) : n \in 0..Len(q) } : q \in Queries }

\* ------------------------------------------------------------------------
\* Viewer
\* ------------------------------------------------------------------------

ModeNormal        == 0
ModeSearch        == 1
ModeSectionSelect == 2
ModeHelp          == 3

SearchAll         == 0
SearchOption      == 1
SearchOptionExact == 2
SearchDescription == 3

PaneSidebar  == 0
PaneContent  == 1
PaneSections == 2
PaneCount    == 3

\* NewViewer sets height to 24
InitialHeight == 24

VARIABLES
    v       \* the tea.Model the running program holds: the Viewer, or the
            \* page-selection Model that main runs before it

vars == <<v>>

\* msg.String() of the key messages delivered to the program
CommandKeys ==
    { "q", "ctrl+c", "tab", "shift+tab", "/", "o", "O", "d", "esc", "n", "N",
      "G", "g", "?", "up", "k", "down", "j", "enter", "right", "l", "left", "h",
      "home", "end", "pgup", "ctrl+u", "pgdown", "ctrl+d", "backspace" }

\* the characters of the queries
QueryChars == UNION { { q[i] : i \in 1..Len(q) } : q \in Queries }

\* a typed character outside ASCII: msg.String() is the character itself,
\* a Go string of two bytes
WideChars == { "é" }

Keys == CommandKeys \cup QueryChars \cup WideChars

\* the keys whose msg.String() is a name of several characters
NamedKeys ==
    { "ctrl+c", "tab", "shift+tab", "esc", "up", "down", "enter",
      "right", "left", "home", "end", "pgup", "ctrl+u", "pgdown",
      "ctrl+d", "backspace" }

\* len(msg.String()) == 1: len of a Go string counts its bytes
IsSingleChar(k) == k \notin NamedKeys /\ k \notin WideChars

Lines(w)       == w.content.Lines
Sections(w)    == w.content.Sections
ManSections(w) == w.content.ManSections

\* the 0-based indices below n that pass the test, ascending
IndicesWhere(n, Test(_)) == SelectSeq([i \in 1..n |-> i - 1], Test)

NewViewer(content) ==
    [content             |-> content,
     mode                |-> ModeNormal,
     focusPane           |-> PaneContent,
     sidebarCursor       |-> 0,
     sidebarScrollOffset |-> 0,
     searchInput         |-> <<>>,
     searchQuery         |-> <<>>,
     searchType          |-> SearchAll,
     filteredIndices     |-> <<>>,
     matchingLines       |-> <<>>,
     currentMatch        |-> 0,
     scrollOffset        |-> 0,
     contentCursor       |-> 0,
     height              |-> InitialHeight,
     quitting            |-> FALSE,
     sectionCursor       |-> 0,
     sectionScrollOffset |-> 0,
     panicked            |-> FALSE]   \* a slice index was out of range

viewportHeight(w) == w.height - 3

sectionModalHeight(w) ==
    LET maxHeight == IF GoDiv(w.height, 2) - 4 < 5 THEN 5
                     ELSE GoDiv(w.height, 2) - 4
        numSections == Len(ManSections(w))
    IN IF numSections < maxHeight THEN numSections ELSE maxHeight

\* mutant: the search type is ignored, every search matches like SearchAll
findMatchingSections_AnyField(w) ==
    IndicesWhere(Len(Sections(w)),
        LAMBDA i : MatchesQuery(Sections(w)[i + 1], w.searchQuery))

findMatchingSections(w) ==
    IndicesWhere(Len(Sections(w)),
        LAMBDA i :
            CASE w.searchType = SearchOption ->
                     MatchesOption(Sections(w)[i + 1], w.searchQuery)
              [] w.searchType = SearchOptionExact ->
                     MatchesOptionExact(Sections(w)[i + 1], w.searchQuery)
              [] w.searchType = SearchDescription ->
                     MatchesDescription(Sections(w)[i + 1], w.searchQuery)
              [] OTHER ->
                     MatchesQuery(Sections(w)[i + 1], w.searchQuery))

totalMatches(w) ==
    IF Len(w.matchingLines) > 0 THEN Len(w.matchingLines)
    ELSE Len(w.filteredIndices)

findMatchingLines(w) ==
    IndicesWhere(Len(Lines(w)),
        LAMBDA i : Contains(ToLower(Lines(w)[i + 1]), ToLower(w.searchQuery)))

getDisplayedSectionIndices(w) ==
    IF w.searchQuery = <<>>
    THEN [i \in 1..Len(Sections(w)) |-> i - 1]
    ELSE IF Len(w.filteredIndices) > 0 THEN w.filteredIndices
    ELSE IF Len(w.matchingLines) > 0
    THEN IndicesWhere(Len(Sections(w)),
             LAMBDA i : MatchesQuery(Sections(w)[i + 1], w.searchQuery))
    ELSE <<>>

adjustSidebarScroll(w) ==
    LET vpHeight == viewportHeight(w) IN
    IF w.sidebarCursor < w.sidebarScrollOffset
    THEN [w EXCEPT !.sidebarScrollOffset = w.sidebarCursor]
    ELSE IF w.sidebarCursor >= w.sidebarScrollOffset + vpHeight
    THEN [w EXCEPT !.sidebarScrollOffset = w.sidebarCursor - vpHeight + 1]
    ELSE w

\* mutant: the selector's offset follows the cursor up but never down
adjustSectionScroll_NeverAdvances(w) ==
    IF w.sectionCursor < w.sectionScrollOffset
    THEN [w EXCEPT !.sectionScrollOffset = w.sectionCursor]
    ELSE w

adjustSectionScroll(w) ==
    LET modalHeight == sectionModalHeight(w) IN
    IF w.sectionCursor < w.sectionScrollOffset
    THEN [w EXCEPT !.sectionScrollOffset = w.sectionCursor]
    ELSE IF w.sectionCursor >= w.sectionScrollOffset + modalHeight
    THEN [w EXCEPT !.sectionScrollOffset = w.sectionCursor - modalHeight + 1]
    ELSE w

\* maxScroll := len(v.content.Lines) - v.viewportHeight(); if < 0 then 0
maxScroll(w) ==
    IF Len(Lines(w)) - viewportHeight(w) < 0 THEN 0
    ELSE Len(Lines(w)) - viewportHeight(w)

\* the index expression s[i] of a slice indexed out of range panics
Panic(w) == [w EXCEPT !.panicked = TRUE]
InRange(i, s) == 0 <= i /\ i < Len(s)

\* mutant: the offset is put a whole viewport above the match line
centerOn_WholePageAbove(w, targetLine) ==
    LET off == targetLine - viewportHeight(w)
        low == IF off < 0 THEN 0 ELSE off
    IN [w EXCEPT !.scrollOffset = IF low > maxScroll(w) THEN maxScroll(w) ELSE low]

\* mutant: the match line is put on the top row instead of the middle one
centerOn_TopAligned(w, targetLine) ==
    LET low == IF targetLine < 0 THEN 0 ELSE targetLine
    IN [w EXCEPT !.scrollOffset = IF low > maxScroll(w) THEN maxScroll(w) ELSE low]

\* mutant: the offset is not clamped to maxScroll
centerOn_NoUpperClamp(w, targetLine) ==
    LET off == targetLine - GoDiv(viewportHeight(w), 2)
    IN [w EXCEPT !.scrollOffset = IF off < 0 THEN 0 ELSE off]

\* the tail of scrollToCurrentMatch: centre targetLine in the viewport
centerOn(w, targetLine) ==
    LET off == targetLine - GoDiv(viewportHeight(w), 2)
        low == IF off < 0 THEN 0 ELSE off
    IN [w EXCEPT !.scrollOffset = IF low > maxScroll(w) THEN maxScroll(w) ELSE low]

scrollToCurrentMatch(w) ==
    IF Len(w.matchingLines) > 0
    THEN IF ~InRange(w.currentMatch, w.matchingLines) THEN Panic(w)
         ELSE centerOn(w, w.matchingLines[w.currentMatch + 1])
    ELSE IF Len(w.filteredIndices) > 0
    THEN IF ~InRange(w.currentMatch, w.filteredIndices) THEN Panic(w)
         ELSE LET sectionIdx == w.filteredIndices[w.currentMatch + 1]
                  section == Sections(w)[sectionIdx + 1]
              IN centerOn(adjustSidebarScroll([w EXCEPT !.sidebarCursor = sectionIdx]),
                          section.StartLine)
    ELSE w

\* mutant: the jump sets the offset to the start line without clamping it
jumpTo_NoClamp(w, startLine) ==
    [w EXCEPT !.scrollOffset = startLine, !.focusPane = PaneContent]

\* v.scrollOffset = StartLine, clamped to maxScroll; focus the content pane
jumpTo(w, startLine) ==
    [w EXCEPT !.scrollOffset = IF startLine > maxScroll(w) THEN maxScroll(w)
                               ELSE startLine,
              !.focusPane = PaneContent]

updateSidebar(w, k) ==
    LET displayedIndices == getDisplayedSectionIndices(w) IN
    IF Len(displayedIndices) = 0 THEN w
    ELSE CASE k \in {"up", "k"} ->
                 IF w.sidebarCursor > 0
                 THEN adjustSidebarScroll([w EXCEPT !.sidebarCursor = @ - 1])
                 ELSE w
           [] k \in {"down", "j"} ->
                 IF w.sidebarCursor < Len(displayedIndices) - 1
                 THEN adjustSidebarScroll([w EXCEPT !.sidebarCursor = @ + 1])
                 ELSE w
           [] k \in {"enter", "right", "l"} ->
                 IF ~InRange(w.sidebarCursor, displayedIndices) THEN Panic(w)
                 ELSE jumpTo(w, Sections(w)[displayedIndices[w.sidebarCursor + 1] + 1].StartLine)
           [] k = "home" ->
                 [w EXCEPT !.sidebarCursor = 0, !.sidebarScrollOffset = 0]
           [] k = "G" ->
                 adjustSidebarScroll([w EXCEPT !.sidebarCursor = Len(displayedIndices) - 1])
           [] OTHER -> w

\* mutant: down moves the cursor row and never scrolls the content
updateContent_DownNeverScrolls(w, k) ==
    LET vpHeight == viewportHeight(w)
        maxLine == IF Len(Lines(w)) - 1 < 0 THEN 0 ELSE Len(Lines(w)) - 1
        currentLine == w.scrollOffset + w.contentCursor
        halfPage == GoDiv(vpHeight, 2)
    IN
    CASE k \in {"up", "k"} ->
             IF currentLine > 0
             THEN IF w.contentCursor > 0
                  THEN [w EXCEPT !.contentCursor = @ - 1]
                  ELSE [w EXCEPT !.scrollOffset = @ - 1]
             ELSE w
      [] k \in {"down", "j"} ->
             IF currentLine < maxLine
             THEN [w EXCEPT !.contentCursor = @ + 1]
             ELSE w
      [] k \in {"pgup", "ctrl+u"} ->
             LET newLine == IF currentLine - halfPage < 0 THEN 0
                            ELSE currentLine - halfPage
             IN IF newLine < w.scrollOffset
                THEN [w EXCEPT !.scrollOffset = newLine, !.contentCursor = 0]
                ELSE [w EXCEPT !.contentCursor = newLine - w.scrollOffset]
      [] k \in {"pgdown", "ctrl+d"} ->
             LET newLine == IF currentLine + halfPage > maxLine THEN maxLine
                            ELSE currentLine + halfPage
             IN IF newLine >= w.scrollOffset + vpHeight
                THEN LET off == IF newLine - vpHeight + 1 > maxScroll(w)
                                THEN maxScroll(w) ELSE newLine - vpHeight + 1
                     IN [w EXCEPT !.scrollOffset = off,
                                  !.contentCursor = newLine - off]
                ELSE [w EXCEPT !.contentCursor = newLine - w.scrollOffset]
      [] k = "home" ->
             [w EXCEPT !.scrollOffset = 0, !.contentCursor = 0]
      [] k = "G" ->
             [w EXCEPT !.scrollOffset = maxScroll(w),
                       !.contentCursor =
                           IF vpHeight - 1 > maxLine - maxScroll(w)
                           THEN maxLine - maxScroll(w) ELSE vpHeight - 1]
      [] k \in {"left", "h"} -> [w EXCEPT !.focusPane = PaneSidebar]
      [] k \in {"right", "l"} -> [w EXCEPT !.focusPane = PaneSections]
      [] OTHER -> w

\* mutant: up scrolls the content back before it moves the cursor row
updateContent_UpScrollsFirst(w, k) ==
    LET vpHeight == viewportHeight(w)
        maxLine == IF Len(Lines(w)) - 1 < 0 THEN 0 ELSE Len(Lines(w)) - 1
        currentLine == w.scrollOffset + w.contentCursor
        halfPage == GoDiv(vpHeight, 2)
    IN
    CASE k \in {"up", "k"} ->
             IF currentLine > 0
             THEN IF w.scrollOffset > 0
                  THEN [w EXCEPT !.scrollOffset = @ - 1]
                  ELSE [w EXCEPT !.contentCursor = @ - 1]
             ELSE w
      [] k \in {"down", "j"} ->
             IF currentLine < maxLine
             THEN IF w.contentCursor < vpHeight - 1
                  THEN [w EXCEPT !.contentCursor = @ + 1]
                  ELSE [w EXCEPT !.scrollOffset = @ + 1]
             ELSE w
      [] k \in {"pgup", "ctrl+u"} ->
             LET newLine == IF currentLine - halfPage < 0 THEN 0
                            ELSE currentLine - halfPage
             IN IF newLine < w.scrollOffset
                THEN [w EXCEPT !.scrollOffset = newLine, !.contentCursor = 0]
                ELSE [w EXCEPT !.contentCursor = newLine - w.scrollOffset]
      [] k \in {"pgdown", "ctrl+d"} ->
             LET newLine == IF currentLine + halfPage > maxLine THEN maxLine
                            ELSE currentLine + halfPage
             IN IF newLine >= w.scrollOffset + vpHeight
                THEN LET off == IF newLine - vpHeight + 1 > maxScroll(w)
                                THEN maxScroll(w) ELSE newLine - vpHeight + 1
                     IN [w EXCEPT !.scrollOffset = off,
                                  !.contentCursor = newLine - off]
                ELSE [w EXCEPT !.contentCursor = newLine - w.scrollOffset]
      [] k = "home" ->
             [w EXCEPT !.scrollOffset = 0, !.contentCursor = 0]
      [] k = "G" ->
             [w EXCEPT !.scrollOffset = maxScroll(w),
                       !.contentCursor =
                           IF vpHeight - 1 > maxLine - maxScroll(w)
                           THEN maxLine - maxScroll(w) ELSE vpHeight - 1]
      [] k \in {"left", "h"} -> [w EXCEPT !.focusPane = PaneSidebar]
      [] k \in {"right", "l"} -> [w EXCEPT !.focusPane = PaneSections]
      [] OTHER -> w

updateContent(w, k) ==
    LET vpHeight == viewportHeight(w)
        maxLine == IF Len(Lines(w)) - 1 < 0 THEN 0 ELSE Len(Lines(w)) - 1
        currentLine == w.scrollOffset + w.contentCursor
        halfPage == GoDiv(vpHeight, 2)
    IN
    CASE k \in {"up", "k"} ->
             IF currentLine > 0
             THEN IF w.contentCursor > 0
                  THEN [w EXCEPT !.contentCursor = @ - 1]
                  ELSE [w EXCEPT !.scrollOffset = @ - 1]
             ELSE w
      [] k \in {"down", "j"} ->
             IF currentLine < maxLine
             THEN IF w.contentCursor < vpHeight - 1
                  THEN [w EXCEPT !.contentCursor = @ + 1]
                  ELSE [w EXCEPT !.scrollOffset = @ + 1]
             ELSE w
      [] k \in {"pgup", "ctrl+u"} ->
             LET newLine == IF currentLine - halfPage < 0 THEN 0
                            ELSE currentLine - halfPage
             IN IF newLine < w.scrollOffset
                THEN [w EXCEPT !.scrollOffset = newLine, !.contentCursor = 0]
                ELSE [w EXCEPT !.contentCursor = newLine - w.scrollOffset]
      [] k \in {"pgdown", "ctrl+d"} ->
             LET newLine == IF currentLine + halfPage > maxLine THEN maxLine
                            ELSE currentLine + halfPage
             IN IF newLine >= w.scrollOffset + vpHeight
                THEN LET off == IF newLine - vpHeight + 1 > maxScroll(w)
                                THEN maxScroll(w) ELSE newLine - vpHeight + 1
                     IN [w EXCEPT !.scrollOffset = off,
                                  !.contentCursor = newLine - off]
                ELSE [w EXCEPT !.contentCursor = newLine - w.scrollOffset]
      [] k = "home" ->
             [w EXCEPT !.scrollOffset = 0, !.contentCursor = 0]
      [] k = "G" ->
             [w EXCEPT !.scrollOffset = maxScroll(w),
                       !.contentCursor =
                           IF vpHeight - 1 > maxLine - maxScroll(w)
                           THEN maxLine - maxScroll(w) ELSE vpHeight - 1]
      [] k \in {"left", "h"} -> [w EXCEPT !.focusPane = PaneSidebar]
      [] k \in {"right", "l"} -> [w EXCEPT !.focusPane = PaneSections]
      [] OTHER -> w

updateSections(w, k) ==
    LET sections == ManSections(w) IN
    IF Len(sections) = 0 THEN w
    ELSE CASE k \in {"up", "k"} ->
                 IF w.sectionCursor > 0
                 THEN [w EXCEPT !.sectionCursor = @ - 1] ELSE w
           [] k \in {"down", "j"} ->
                 IF w.sectionCursor < Len(sections) - 1
                 THEN [w EXCEPT !.sectionCursor = @ + 1] ELSE w
           [] k \in {"enter", "l"} ->
                 IF ~InRange(w.sectionCursor, sections) THEN Panic(w)
                 ELSE jumpTo(w, sections[w.sectionCursor + 1].StartLine)
           [] k = "home" -> [w EXCEPT !.sectionCursor = 0]
           [] k = "G" -> [w EXCEPT !.sectionCursor = Len(sections) - 1]
           [] k \in {"left", "h"} -> [w EXCEPT !.focusPane = PaneContent]
           [] OTHER -> w

\* case "/", "o", "O", "d" of updateNormal
enterSearch(w, searchType) ==
    [w EXCEPT !.mode = ModeSearch, !.searchInput = <<>>, !.searchType = searchType]

\* mutant: the option-list cursor and offset are left where they are
clearSearch_KeepsSidebar(w) ==
    [w EXCEPT !.searchQuery = <<>>, !.filteredIndices = <<>>,
              !.matchingLines = <<>>, !.currentMatch = 0]

\* case "esc" of updateNormal
clearSearch(w) ==
    [w EXCEPT !.searchQuery = <<>>, !.filteredIndices = <<>>,
              !.matchingLines = <<>>, !.currentMatch = 0,
              !.sidebarCursor = 0, !.sidebarScrollOffset = 0]

\* mutant: next-match stops at the last match instead of wrapping
nextMatch_NoWrap(w) ==
    LET matchCount == totalMatches(w) IN
    IF matchCount > 0
    THEN LET m == scrollToCurrentMatch(
                      [w EXCEPT !.currentMatch = IF w.currentMatch + 1 >= matchCount
                                                 THEN matchCount - 1
                                                 ELSE w.currentMatch + 1])
         IN IF m.panicked THEN m ELSE [m EXCEPT !.focusPane = PaneContent]
    ELSE w

\* case "n" of updateNormal
nextMatch(w) ==
    LET matchCount == totalMatches(w) IN
    IF matchCount > 0
    THEN LET m == scrollToCurrentMatch(
                      [w EXCEPT !.currentMatch = (w.currentMatch + 1) % matchCount])
         IN IF m.panicked THEN m ELSE [m EXCEPT !.focusPane = PaneContent]
    ELSE w

\* mutant: previous-match decrements without wrapping
prevMatch_NoWrap(w) ==
    LET matchCount == totalMatches(w) IN
    IF matchCount > 0
    THEN LET m == scrollToCurrentMatch([w EXCEPT !.currentMatch = w.currentMatch - 1])
         IN IF m.panicked THEN m ELSE [m EXCEPT !.focusPane = PaneContent]
    ELSE w

\* case "N" of updateNormal
prevMatch(w) ==
    LET matchCount == totalMatches(w) IN
    IF matchCount > 0
    THEN LET m == scrollToCurrentMatch(
                      [w EXCEPT !.currentMatch = IF w.currentMatch - 1 < 0
                                                 THEN matchCount - 1
                                                 ELSE w.currentMatch - 1])
         IN IF m.panicked THEN m ELSE [m EXCEPT !.focusPane = PaneContent]
    ELSE w

\* mutant: the selector opens whether or not there is a heading
openSectionSelect_Unguarded(w) ==
    [w EXCEPT !.mode = ModeSectionSelect, !.sectionCursor = 0,
              !.sectionScrollOffset = 0]

\* case "G" of updateNormal
openSectionSelect(w) ==
    IF Len(ManSections(w)) > 0
    THEN [w EXCEPT !.mode = ModeSectionSelect, !.sectionCursor = 0,
                   !.sectionScrollOffset = 0]
    ELSE w

\* mutant: the panes are cycled modulo 2, as when there were two of them
cyclePane_TwoPanes(w, step) ==
    [w EXCEPT !.focusPane = (w.focusPane + step) % 2]

\* case "tab" (step 1) and case "shift+tab" (step PaneCount - 1) of
\* updateNormal
cyclePane(w, step) ==
    [w EXCEPT !.focusPane = (w.focusPane + step) % PaneCount]

updateNormal(w, k) ==
    CASE k \in {"q", "ctrl+c"} -> [w EXCEPT !.quitting = TRUE]
      [] k = "tab" -> cyclePane(w, 1)
      [] k = "shift+tab" -> cyclePane(w, PaneCount - 1)
      [] k = "/" -> enterSearch(w, SearchAll)
      [] k = "o" -> enterSearch(w, SearchOption)
      [] k = "O" -> enterSearch(w, SearchOptionExact)
      [] k = "d" -> enterSearch(w, SearchDescription)
      [] k = "esc" -> clearSearch(w)
      [] k = "n" -> nextMatch(w)
      [] k = "N" -> prevMatch(w)
      [] k = "G" -> openSectionSelect(w)
      [] k = "?" -> [w EXCEPT !.mode = ModeHelp]
      [] OTHER ->
             CASE w.focusPane = PaneSidebar -> updateSidebar(w, k)
               [] w.focusPane = PaneSections -> updateSections(w, k)
               [] OTHER -> updateContent(w, k)

\* mutant: a confirm does not reset the match list of the other kind
confirmSearch_KeepsOtherList(w) ==
    LET q == [w EXCEPT !.searchQuery = w.searchInput, !.currentMatch = 0,
                       !.sidebarCursor = 0, !.sidebarScrollOffset = 0]
        found == IF q.searchType = SearchAll
                 THEN [q EXCEPT !.matchingLines = findMatchingLines(q)]
                 ELSE [q EXCEPT !.filteredIndices = findMatchingSections(q)]
        m == IF totalMatches(found) > 0 THEN scrollToCurrentMatch(found)
             ELSE found
    IN IF m.panicked THEN m
       ELSE [m EXCEPT !.mode = ModeNormal, !.focusPane = PaneContent]

\* mutant: cancel also forgets the active query
cancelSearch_DropsQuery(w) ==
    [w EXCEPT !.mode = ModeNormal, !.searchInput = <<>>, !.searchQuery = <<>>]

\* case "esc" of updateSearch
cancelSearch(w) ==
    [w EXCEPT !.mode = ModeNormal, !.searchInput = <<>>]

\* case "enter" of updateSearch
confirmSearch(w) ==
    LET q == [w EXCEPT !.searchQuery = w.searchInput, !.currentMatch = 0,
                       !.sidebarCursor = 0, !.sidebarScrollOffset = 0]
        found == IF q.searchType = SearchAll
                 THEN [q EXCEPT !.matchingLines = findMatchingLines(q),
                                !.filteredIndices = <<>>]
                 ELSE [q EXCEPT !.filteredIndices = findMatchingSections(q),
                                !.matchingLines = <<>>]
        m == IF totalMatches(found) > 0 THEN scrollToCurrentMatch(found)
             ELSE found
    IN IF m.panicked THEN m
       ELSE [m EXCEPT !.mode = ModeNormal, !.focusPane = PaneContent]

updateSearch(w, k) ==
    CASE k = "ctrl+c" -> [w EXCEPT !.quitting = TRUE]
      [] k = "esc" -> cancelSearch(w)
      [] k = "enter" -> confirmSearch(w)
      [] k = "backspace" ->
             IF Len(w.searchInput) > 0
             THEN [w EXCEPT !.searchInput = SubSeq(@, 1, Len(@) - 1)]
             ELSE w
      [] OTHER ->
             IF IsSingleChar(k) THEN [w EXCEPT !.searchInput = Append(@, k)]
             ELSE w

\* mutant: closing the selector scrolls the content back to the top
updateSectionSelect_CloseScrollsHome(w, k) ==
    LET sections == ManSections(w) IN
    IF Len(sections) = 0 THEN [w EXCEPT !.mode = ModeNormal]
    ELSE CASE k = "ctrl+c" -> [w EXCEPT !.quitting = TRUE]
           [] k \in {"esc", "g"} ->
                 [w EXCEPT !.mode = ModeNormal, !.scrollOffset = 0,
                           !.contentCursor = 0]
           [] k \in {"up", "k"} ->
                 IF w.sectionCursor > 0
                 THEN adjustSectionScroll([w EXCEPT !.sectionCursor = @ - 1])
                 ELSE w
           [] k \in {"down", "j"} ->
                 IF w.sectionCursor < Len(sections) - 1
                 THEN adjustSectionScroll([w EXCEPT !.sectionCursor = @ + 1])
                 ELSE w
           [] k \in {"enter", "l"} ->
                 IF ~InRange(w.sectionCursor, sections) THEN Panic(w)
                 ELSE [jumpTo(w, sections[w.sectionCursor + 1].StartLine)
                          EXCEPT !.mode = ModeNormal]
           [] k = "home" ->
                 [w EXCEPT !.sectionCursor = 0, !.sectionScrollOffset = 0]
           [] k \in {"end", "G"} ->
                 adjustSectionScroll([w EXCEPT !.sectionCursor = Len(sections) - 1])
           [] OTHER -> w

updateSectionSelect(w, k) ==
    LET sections == ManSections(w) IN
    IF Len(sections) = 0 THEN [w EXCEPT !.mode = ModeNormal]
    ELSE CASE k = "ctrl+c" -> [w EXCEPT !.quitting = TRUE]
           [] k \in {"esc", "g"} -> [w EXCEPT !.mode = ModeNormal]
           [] k \in {"up", "k"} ->
                 IF w.sectionCursor > 0
                 THEN adjustSectionScroll([w EXCEPT !.sectionCursor = @ - 1])
                 ELSE w
           [] k \in {"down", "j"} ->
                 IF w.sectionCursor < Len(sections) - 1
                 THEN adjustSectionScroll([w EXCEPT !.sectionCursor = @ + 1])
                 ELSE w
           [] k \in {"enter", "l"} ->
                 IF ~InRange(w.sectionCursor, sections) THEN Panic(w)
                 ELSE [jumpTo(w, sections[w.sectionCursor + 1].StartLine)
                          EXCEPT !.mode = ModeNormal]
           [] k = "home" ->
                 [w EXCEPT !.sectionCursor = 0, !.sectionScrollOffset = 0]
           [] k \in {"end", "G"} ->
                 adjustSectionScroll([w EXCEPT !.sectionCursor = Len(sections) - 1])
           [] OTHER -> w

\* mutant: q leaves the program from the help as it does from Normal mode
updateHelp_QQuits(w, k) ==
    CASE k \in {"ctrl+c", "q"} -> [w EXCEPT !.quitting = TRUE]
      [] k \in {"esc", "?"} -> [w EXCEPT !.mode = ModeNormal]
      [] OTHER -> w

updateHelp(w, k) ==
    CASE k = "ctrl+c" -> [w EXCEPT !.quitting = TRUE]
      [] k \in {"esc", "?", "q"} -> [w EXCEPT !.mode = ModeNormal]
      [] OTHER -> w

\* renderSidebar: the display indices of the rows it draws under the title,
\* top to bottom
renderSidebar(w) ==
    LET vpHeight == viewportHeight(w) - 1
    IN [i \in 1..vpHeight |-> w.sidebarScrollOffset + (i - 1)]

\* renderContent: the line indices of the rows it draws under the title,
\* top to bottom
renderContent(w) ==
    LET vpHeight == viewportHeight(w) - 1
    IN [i \in 1..vpHeight |-> w.scrollOffset + (i - 1)]

\* the search prefix of the title bar
searchPrefix(w) ==
    CASE w.searchType = SearchOption -> "option:"
      [] w.searchType = SearchOptionExact -> "option(exact):"
      [] w.searchType = SearchDescription -> "desc:"
      [] OTHER -> "search:"

\* the title View builds: the page name and, under a search query, the
\* prefix of the search type, the query and the match information
title(w) ==
    IF w.searchQuery # <<>>
    THEN [page |-> "name(section)", searchPrefix |-> searchPrefix(w),
          searchQuery |-> w.searchQuery]
    ELSE [page |-> "name(section)"]

\* View: the empty string once quitting, else the title bar followed by the
\* panes and the status line (the parts of the screen, top to bottom)
View(w) ==
    IF w.quitting THEN <<>>
    ELSE <<title(w), "panes", "status">>

\* Update, case tea.KeyMsg
Update(w, k) ==
    CASE w.mode = ModeNormal -> updateNormal(w, k)
      [] w.mode = ModeSearch -> updateSearch(w, k)
      [] w.mode = ModeSectionSelect -> updateSectionSelect(w, k)
      [] w.mode = ModeHelp -> updateHelp(w, k)
      [] OTHER -> w

\* ------------------------------------------------------------------------
\* The program: main builds the Viewer and bubbletea feeds it messages
\* until it quits (tea.Quit) or panics.
\* ------------------------------------------------------------------------

Init == \E d \in DOMAIN Docs : v = NewViewer(FetchManPage(Docs[d]))

Running == ~v.quitting /\ ~v.panicked

Heights == MinHeight..MaxHeight

\* Update, case tea.WindowSizeMsg
Resize(h) ==
    /\ Running
    /\ v' = [v EXCEPT !.height = h]

\* the terminal's size reaches the program while the Viewer is as NewViewer
\* built it, and is held fixed from then on
WindowSizeMsg ==
    /\ v = NewViewer(v.content)
    /\ \E h \in Heights : Resize(h)

\* the keys the model delivers: in search mode a character is typed only
\* while the buffer stays a prefix of one of Queries
Offered(k) ==
    (v.mode = ModeSearch /\ IsSingleChar(k)) =>
        Append(v.searchInput, k) \in QueryPrefixes

\* Update, case tea.KeyMsg, for the key k
Key(k) ==
    /\ Running
    /\ Offered(k)
    /\ v' = Update(v, k)

KeyNormal        == v.mode = ModeNormal /\ \E k \in Keys : Key(k)
KeySearch        == v.mode = ModeSearch /\ \E k \in Keys : Key(k)
KeySectionSelect == v.mode = ModeSectionSelect /\ \E k \in Keys : Key(k)
KeyHelp          == v.mode = ModeHelp /\ \E k \in Keys : Key(k)

Next ==
    \/ WindowSizeMsg
    \/ KeyNormal
    \/ KeySearch
    \/ KeySectionSelect
    \/ KeyHelp

Spec == Init /\ [][Next]_vars

\* the program started on a page whose lists need scrolling
InitLists == \E d \in DOMAIN ListDocs : v = NewViewer(FetchManPage(ListDocs[d]))

SpecLists == InitLists /\ [][Next]_vars

\* the program started on the page of scenario A, in a terminal of 24 rows
InitScenario == v = NewViewer(FetchManPage(ScenarioA))

\* the query typed there, and the keys delivered
ScenarioQuery == <<"-", "r">>
ScenarioKeys == CommandKeys \cup {"-", "r"}

\* in search mode a character is typed only while the buffer stays a
\* prefix of ScenarioQuery
OfferedScenario(k) ==
    (v.mode = ModeSearch /\ IsSingleChar(k)) =>
        \E n \in 0..Len(ScenarioQuery) :
            Append(v.searchInput, k) = SubSeq(ScenarioQuery, 1, n)

\* Update, case tea.KeyMsg
ScenarioKey ==
    \E k \in ScenarioKeys :
        /\ Running
        /\ OfferedScenario(k)
        /\ v' = Update(v, k)

NextScenario == ScenarioKey

SpecScenario == InitScenario /\ [][NextScenario]_vars

\* the program on FlagsPage, in search mode with a query typed
InitFlags ==
    \E query \in FlagQueries :
        \E searchType \in {SearchAll, SearchOption, SearchOptionExact,
                           SearchDescription} :
            v = [NewViewer(FetchManPage(FlagsPage))
                     EXCEPT !.mode = ModeSearch,
                            !.searchType = searchType,
                            !.searchInput = query]

NextFlags == KeySearch

SpecFlags == InitFlags /\ [][NextFlags]_vars

\* the program on MatchPage, in search mode of any type with any of
\* MatchQueries typed
InitMatch ==
    \E query \in MatchQueries :
        \E searchType \in {SearchAll, SearchOption, SearchOptionExact,
                           SearchDescription} :
            v = [NewViewer(FetchManPage(MatchPage))
                     EXCEPT !.mode = ModeSearch,
                            !.searchType = searchType,
                            !.searchInput = query]

SpecMatch == InitMatch /\ [][NextFlags]_vars

\* FetchManPage on any page of LineSeqs: the lines man printed, split but
\* not yet scanned ...
InitSegment ==
    \E lines \in LineSeqs :
        v = NewViewer([Lines |-> lines, Sections |-> <<>>, ManSections |-> <<>>])

\* ... and the two scanners run on them, the Viewer built on the result
Scan ==
    /\ Running
    /\ v' = NewViewer(FetchManPage(Lines(v)))

NextSegment == Scan

SpecSegment == InitSegment /\ [][NextSegment]_vars

\* FetchManPage on any page of OptionPages
InitOptions ==
    \E lines \in OptionPages :
        v = NewViewer([Lines |-> lines, Sections |-> <<>>, ManSections |-> <<>>])

SpecOptions == InitOptions /\ [][NextSegment]_vars

\* FetchManPage on any page of ExplanationPages
InitExplain ==
    \E lines \in ExplanationPages :
        v = NewViewer([Lines |-> lines, Sections |-> <<>>, ManSections |-> <<>>])

SpecExplain == InitExplain /\ [][NextSegment]_vars

\* FetchManPage on any page of NestedPages
InitNested ==
    \E lines \in NestedPages :
        v = NewViewer([Lines |-> lines, Sections |-> <<>>, ManSections |-> <<>>])

SpecNested == InitNested /\ [][NextSegment]_vars

\* the program in a terminal whose window is resized at any time
InitResize == v = NewViewer(FetchManPage(OneHeading))

\* Update, case tea.WindowSizeMsg, delivered in any state
WindowResized == \E h \in Heights : Resize(h)

NextResize ==
    \/ WindowResized
    \/ KeyNormal
    \/ KeySearch
    \/ KeySectionSelect
    \/ KeyHelp

SpecResize == InitResize /\ [][NextResize]_vars

\* the program in a terminal so short that the viewport has no row, or in
\* one a row or two taller; the size is set once
ShortHeights == (MinHeight - 1)..(MinHeight + 1)

WindowSizeShort ==
    /\ v = NewViewer(v.content)
    /\ \E h \in ShortHeights : Resize(h)

NextShort ==
    \/ WindowSizeShort
    \/ KeyNormal
    \/ KeySearch
    \/ KeySectionSelect
    \/ KeyHelp

SpecShort == Init /\ [][NextShort]_vars

\* ------------------------------------------------------------------------
\* The page-selection Model (main runs it first, to pick the page to view)
\* ------------------------------------------------------------------------

StateInput  == 0
StateSelect == 1

\* the Model as declared: the zero value of every field
ZeroModel ==
    [state |-> StateInput, input |-> <<>>, pages |-> <<>>, cursor |-> 0,
     scrollOffset |-> 0, selected |-> <<>>, quitting |-> FALSE,
     keyword |-> <<>>, err |-> "", height |-> 0,
     \* not fields: a handler returned tea.Quit; a handler panicked
     exited |-> FALSE, panicked |-> FALSE]

NewInputModel == ZeroModel

NewSelectModel(keyword, pages) ==
    [ZeroModel EXCEPT !.state = StateSelect, !.pages = pages, !.cursor = 0,
                      !.keyword = keyword]

\* what SearchManPages may return: an error, or the pages man -k lists, the
\* i-th of them written i
SearchResults ==
    { [failed |-> TRUE, pages |-> <<>>] } \cup
    { [failed |-> FALSE, pages |-> [i \in 1..n |-> i]] : n \in 0..MaxPages }

\* Model.viewportHeight
modelViewportHeight(m) ==
    LET reserved == 4
    IN IF m.height <= reserved THEN 10 ELSE m.height - reserved

adjustScroll(m) ==
    LET vpHeight == modelViewportHeight(m) IN
    IF m.cursor < m.scrollOffset THEN [m EXCEPT !.scrollOffset = m.cursor]
    ELSE IF m.cursor >= m.scrollOffset + vpHeight
    THEN [m EXCEPT !.scrollOffset = m.cursor - vpHeight + 1]
    ELSE m

\* mutant: a search that finds no page still enters the selection state
updateInput_EntersOnNoPages(m, k, result) ==
    CASE k \in {"ctrl+c", "esc"} -> [m EXCEPT !.quitting = TRUE, !.exited = TRUE]
      [] k = "enter" ->
             IF m.input = <<>> THEN m
             ELSE IF result.failed THEN [m EXCEPT !.err = "Error searching"]
             ELSE [m EXCEPT !.state = StateSelect, !.keyword = m.input,
                            !.pages = result.pages, !.cursor = 0,
                            !.scrollOffset = 0, !.err = ""]
      [] k = "backspace" ->
             IF Len(m.input) > 0
             THEN [m EXCEPT !.input = SubSeq(@, 1, Len(@) - 1), !.err = ""]
             ELSE m
      [] OTHER ->
             IF IsSingleChar(k) THEN [m EXCEPT !.input = Append(@, k), !.err = ""]
             ELSE m

\* Model.updateInput; result is what SearchManPages returns if it is called
updateInput(m, k, result) ==
    CASE k \in {"ctrl+c", "esc"} -> [m EXCEPT !.quitting = TRUE, !.exited = TRUE]
      [] k = "enter" ->
             IF m.input = <<>> THEN m
             ELSE IF result.failed THEN [m EXCEPT !.err = "Error searching"]
             ELSE IF Len(result.pages) = 0
             THEN [m EXCEPT !.err = "No man pages found"]
             ELSE [m EXCEPT !.state = StateSelect, !.keyword = m.input,
                            !.pages = result.pages, !.cursor = 0,
                            !.scrollOffset = 0, !.err = ""]
      [] k = "backspace" ->
             IF Len(m.input) > 0
             THEN [m EXCEPT !.input = SubSeq(@, 1, Len(@) - 1), !.err = ""]
             ELSE m
      [] OTHER ->
             IF IsSingleChar(k) THEN [m EXCEPT !.input = Append(@, k), !.err = ""]
             ELSE m

\* Model.updateSelect
updateSelect(m, k) ==
    CASE k \in {"ctrl+c", "q", "esc"} -> [m EXCEPT !.quitting = TRUE, !.exited = TRUE]
      [] k \in {"up", "k"} ->
             IF m.cursor > 0 THEN adjustScroll([m EXCEPT !.cursor = @ - 1]) ELSE m
      [] k \in {"down", "j"} ->
             IF m.cursor < Len(m.pages) - 1
             THEN adjustScroll([m EXCEPT !.cursor = @ + 1]) ELSE m
      [] k = "enter" ->
             IF Len(m.pages) > 0
             THEN IF ~InRange(m.cursor, m.pages)
                  THEN [m EXCEPT !.panicked = TRUE]
                  ELSE [m EXCEPT !.selected = <<m.pages[m.cursor + 1]>>,
                                 !.exited = TRUE]
             ELSE [m EXCEPT !.exited = TRUE]
      [] k \in {"home", "g"} -> [m EXCEPT !.cursor = 0, !.scrollOffset = 0]
      [] k \in {"end", "G"} -> adjustScroll([m EXCEPT !.cursor = Len(m.pages) - 1])
      [] OTHER -> m

\* the keyword typed at the prompt, or given on the command line
Keyword == <<"l", "s">>

\* the keys delivered to the Model
ModelKeys ==
    { "ctrl+c", "esc", "q", "enter", "backspace", "up", "k", "down", "j",
      "home", "g", "end", "G", "l", "s" }

\* main: no argument starts the Model at the prompt; with a keyword whose
\* search finds pages it starts in the selection state
InitSelect ==
    \/ v = NewInputModel
    \/ \E result \in SearchResults :
          /\ ~result.failed /\ Len(result.pages) > 0
          /\ v = NewSelectModel(Keyword, result.pages)

ModelRunning == ~v.exited /\ ~v.panicked

\* Model.Update, case tea.WindowSizeMsg: the size reaches the program while
\* the Model is as main built it, and is held fixed from then on
ModelWindowSizeMsg ==
    /\ ModelRunning
    /\ v \in {NewInputModel, NewSelectModel(v.keyword, v.pages)}
    /\ \E h \in Heights : v' = [v EXCEPT !.height = h]

\* Model.Update, case tea.KeyMsg in StateInput; a character is typed only
\* while the input stays a prefix of Keyword
KeyInput ==
    /\ ModelRunning /\ v.state = StateInput
    /\ \E k \in ModelKeys : \E result \in SearchResults :
          /\ IsSingleChar(k) =>
                \E n \in 0..Len(Keyword) : Append(v.input, k) = SubSeq(Keyword, 1, n)
          /\ v' = updateInput(v, k, result)

\* Model.Update, case tea.KeyMsg in StateSelect
KeySelect ==
    /\ ModelRunning /\ v.state = StateSelect
    /\ \E k \in ModelKeys : v' = updateSelect(v, k)

NextSelect ==
    \/ ModelWindowSizeMsg
    \/ KeyInput
    \/ KeySelect

SpecSelect == InitSelect /\ [][NextSelect]_vars

\* ------------------------------------------------------------------------
\* Properties
\* ------------------------------------------------------------------------

\* the option list the sidebar displays
Displayed == getDisplayedSectionIndices(v)

\* max(0, totalLines - viewportHeight)
ScrollBound ==
    IF Len(Lines(v)) - viewportHeight(v) > 0
    THEN Len(Lines(v)) - viewportHeight(v) ELSE 0

\* seq lists exactly the members of set, in ascending order
AscendingOf(seq, set) ==
    /\ { seq[i] : i \in 1..Len(seq) } = set
    /\ \A i \in 1..(Len(seq) - 1) : seq[i] < seq[i + 1]

\* the match predicate of a search type, on a section
MatchesIn(searchType, section, query) ==
    CASE searchType = SearchAll -> MatchesQuery(section, query)
      [] searchType = SearchOption -> MatchesOption(section, query)
      [] searchType = SearchOptionExact -> MatchesOptionExact(section, query)
      [] searchType = SearchDescription -> MatchesDescription(section, query)

\* C1: with the window size held fixed, after any sequence of content-pane
\* navigation keys and of jumps to a section or to a match, the content
\* scrollOffset lies in [0, max(0, totalLines - viewportHeight)].
ScrollOffsetClamped ==
    0 <= v.scrollOffset /\ v.scrollOffset <= ScrollBound

\* C1 witness: navigation has moved the cursor down, a jump to the third
\* match has been made, and the offset sits on its upper bound.
ScrollOffsetClampedWitness ==
    /\ ScrollBound > 0
    /\ v.scrollOffset = ScrollBound
    /\ v.contentCursor > 0
    /\ v.currentMatch = 2

\* C2: whenever the displayed option list is not empty the option-list
\* cursor is a valid index into it, so Enter in the option-list pane never
\* indexes outside the displayed list.
SidebarCursorValid ==
    /\ Len(Displayed) > 0 => InRange(v.sidebarCursor, Displayed)
    /\ ~v.panicked

\* C3: whenever the match count is greater than 0, currentMatch is a valid
\* index into the populated match list.
CurrentMatchValid ==
    totalMatches(v) > 0 =>
        0 <= v.currentMatch /\ v.currentMatch < totalMatches(v)

\* C3 witness: of three or more matches the last one is the current one.
CurrentMatchValidWitness ==
    totalMatches(v) >= 3 /\ v.currentMatch = totalMatches(v) - 1

\* C4: the line-number match list and the section-index match list are
\* never both non-empty; a key gives a new non-empty line-number list only
\* when it is the confirm of an All search, and a new non-empty
\* section-index list only when it is the confirm of a field-restricted
\* search.
MatchListsExclusive ==
    /\ ~(v.matchingLines # <<>> /\ v.filteredIndices # <<>>)
    /\ Running =>
         \A k \in Keys :
            Offered(k) =>
               LET w == Update(v, k) IN
               /\ (w.matchingLines # <<>> /\ w.matchingLines # v.matchingLines) =>
                     (v.mode = ModeSearch /\ k = "enter" /\ v.searchType = SearchAll)
               /\ (w.filteredIndices # <<>> /\ w.filteredIndices # v.filteredIndices) =>
                     (v.mode = ModeSearch /\ k = "enter" /\ v.searchType # SearchAll)

\* C4 witness: an All search is about to be confirmed while the
\* section-index list of an earlier search is populated; the confirm
\* populates the line-number list and empties the other.
MatchListsExclusiveWitness ==
    /\ Running /\ v.mode = ModeSearch /\ v.searchType = SearchAll
    /\ v.filteredIndices # <<>>
    /\ Update(v, "enter").matchingLines # <<>>
    /\ Update(v, "enter").filteredIndices = <<>>

\* C5: in Normal mode with m > 0 matches, n sets currentMatch to
\* (currentMatch + 1) mod m and N sets it to (currentMatch - 1) mod m, and
\* both focus the content pane; with m = 0 both leave the state unchanged.
MatchNavigationWraps ==
    (Running /\ v.mode = ModeNormal) =>
        LET m == totalMatches(v)
            nxt == Update(v, "n")
            prv == Update(v, "N")
        IN IF m > 0
           THEN /\ nxt.currentMatch = (v.currentMatch + 1) % m
                /\ nxt.focusPane = PaneContent
                /\ prv.currentMatch = (v.currentMatch + m - 1) % m
                /\ prv.focusPane = PaneContent
           ELSE nxt = v /\ prv = v

\* C5 witness: the last of three or more matches is current and the option
\* list is focused; n wraps to match 0 and focuses the content pane.
MatchNavigationWrapsWitness ==
    /\ Running /\ v.mode = ModeNormal
    /\ totalMatches(v) >= 3
    /\ v.currentMatch = totalMatches(v) - 1
    /\ v.focusPane = PaneSidebar
    /\ Update(v, "n").currentMatch = 0
    /\ Update(v, "n").focusPane = PaneContent

\* C6: Enter in search mode sets searchQuery to the input buffer, sets the
\* match set to exactly the lines (All) or the section indices
\* (field-restricted) that satisfy the predicate of the recorded search
\* type, sets currentMatch to 0 and ends in Normal mode with the content
\* pane focused.
ConfirmComputesMatches ==
    (Running /\ v.mode = ModeSearch) =>
        LET w == Update(v, "enter")
            lines == { i \in 0..(Len(Lines(v)) - 1) :
                          Contains(ToLower(Lines(v)[i + 1]), ToLower(v.searchInput)) }
            sections == { i \in 0..(Len(Sections(v)) - 1) :
                             MatchesIn(v.searchType, Sections(v)[i + 1], v.searchInput) }
        IN /\ w.searchQuery = v.searchInput
           /\ IF v.searchType = SearchAll
              THEN AscendingOf(w.matchingLines, lines) /\ w.filteredIndices = <<>>
              ELSE AscendingOf(w.filteredIndices, sections) /\ w.matchingLines = <<>>
           /\ w.currentMatch = 0
           /\ w.mode = ModeNormal
           /\ w.focusPane = PaneContent

\* C6 witness: a Description search for a typed query is about to be
\* confirmed from the option-list pane, over the line matches of an
\* earlier All search; the confirm finds a section.
ConfirmComputesMatchesWitness ==
    /\ Running /\ v.mode = ModeSearch /\ v.searchType = SearchDescription
    /\ v.searchInput # <<>>
    /\ v.matchingLines # <<>>
    /\ v.focusPane = PaneSidebar
    /\ Update(v, "enter").filteredIndices # <<>>

\* C7: Esc in search mode returns to Normal with an empty input buffer and
\* leaves searchQuery, both match lists, currentMatch, the content offset
\* and cursor, the option-list cursor and offset and the focused pane
\* unchanged, whatever was typed.
CancelKeepsSearchState ==
    (Running /\ v.mode = ModeSearch) =>
        LET w == Update(v, "esc") IN
        /\ w.mode = ModeNormal
        /\ w.searchInput = <<>>
        /\ w.searchQuery = v.searchQuery
        /\ w.matchingLines = v.matchingLines
        /\ w.filteredIndices = v.filteredIndices
        /\ w.currentMatch = v.currentMatch
        /\ w.scrollOffset = v.scrollOffset
        /\ w.contentCursor = v.contentCursor
        /\ w.sidebarCursor = v.sidebarCursor
        /\ w.sidebarScrollOffset = v.sidebarScrollOffset
        /\ w.focusPane = v.focusPane

\* C7 witness: something other than the active query has been typed while
\* an earlier search with matches is active, and Esc is about to cancel it.
CancelKeepsSearchStateWitness ==
    /\ Running /\ v.mode = ModeSearch
    /\ v.searchInput # <<>>
    /\ v.searchQuery # <<>>
    /\ v.searchInput # v.searchQuery
    /\ v.currentMatch > 0
    /\ Update(v, "esc").mode = ModeNormal

\* C8: Esc in Normal mode empties searchQuery and both match lists, sets
\* currentMatch and the option-list cursor and offset to 0, and leaves
\* mode, focused pane, content offset and content cursor unchanged.
ClearSearchResets ==
    (Running /\ v.mode = ModeNormal) =>
        LET w == Update(v, "esc") IN
        /\ w.searchQuery = <<>>
        /\ w.matchingLines = <<>>
        /\ w.filteredIndices = <<>>
        /\ w.currentMatch = 0
        /\ w.sidebarCursor = 0
        /\ w.sidebarScrollOffset = 0
        /\ w.mode = v.mode
        /\ w.focusPane = v.focusPane
        /\ w.scrollOffset = v.scrollOffset
        /\ w.contentCursor = v.contentCursor

\* C8 witness: a search is active on its second match, the option-list
\* cursor and the content offset and cursor are off 0, and Esc is about to
\* clear the search.
ClearSearchResetsWitness ==
    /\ Running /\ v.mode = ModeNormal
    /\ v.searchQuery # <<>>
    /\ v.currentMatch > 0
    /\ v.sidebarCursor > 0
    /\ v.scrollOffset > 0
    /\ v.contentCursor > 0
    /\ Update(v, "esc").sidebarCursor = 0

\* C9 (as claimed): Tab advances and Shift+Tab retreats focusPane by one
\* modulo the three panes in every mode.
PaneCyclingAnyMode ==
    Running =>
        /\ Update(v, "tab").focusPane = (v.focusPane + 1) % 3
        /\ Update(v, "shift+tab").focusPane = (v.focusPane + 2) % 3

\* C9 (amended): in Normal mode Tab advances and Shift+Tab retreats
\* focusPane by one modulo the three panes, so three Tabs return to the
\* starting pane and Tab then Shift+Tab is the identity; in the search,
\* section-selector and help modes neither key changes focusPane.
PaneCyclingNormalOnly ==
    Running =>
        IF v.mode = ModeNormal
        THEN /\ Update(v, "tab").focusPane = (v.focusPane + 1) % 3
             /\ Update(v, "shift+tab").focusPane = (v.focusPane + 2) % 3
             /\ Update(Update(Update(v, "tab"), "tab"), "tab") = v
             /\ Update(Update(v, "tab"), "shift+tab") = v
        ELSE /\ Update(v, "tab").focusPane = v.focusPane
             /\ Update(v, "shift+tab").focusPane = v.focusPane

\* C9 witness: the focus has been cycled to the sections pane and the
\* section selector is open, where Tab leaves the focus alone.
PaneCyclingNormalOnlyWitness ==
    /\ Running /\ v.mode = ModeSectionSelect
    /\ v.focusPane = PaneSections
    /\ Update(v, "tab").focusPane = PaneSections

\* C10: the section selector is open only when the page has a heading:
\* with no heading G leaves the state unchanged (mode stays Normal), with
\* a heading it opens the selector with its cursor and offset at 0.
SectionSelectNeedsHeading ==
    /\ v.mode = ModeSectionSelect => Len(ManSections(v)) > 0
    /\ (Running /\ v.mode = ModeNormal) =>
          LET w == Update(v, "G") IN
          IF Len(ManSections(v)) = 0
          THEN w = v
          ELSE /\ w.mode = ModeSectionSelect
               /\ w.sectionCursor = 0
               /\ w.sectionScrollOffset = 0

\* C10 witness: a page without headings, the sections pane focused after
\* a search, and G about to be pressed.
SectionSelectNeedsHeadingWitness ==
    /\ Running /\ v.mode = ModeNormal
    /\ Len(ManSections(v)) = 0
    /\ v.searchQuery # <<>>
    /\ v.focusPane = PaneSections
    /\ Update(v, "G") = v

\* the cursors of the three panes
PaneCursors(w) == <<w.sidebarCursor, w.contentCursor, w.sectionCursor>>

\* the keys that move within the section selector, and those that close it
PickerMoveKeys == {"up", "k", "down", "j", "home", "end", "G"}
PickerCloseKeys == {"esc", "g"}

\* the keys that close the help
HelpCloseKeys == {"esc", "?", "q"}

\* C11: the section selector keeps a cursor of its own: opening it, moving
\* within it and closing it leave the cursor of the option list, of the
\* content pane and of the sections pane as they were.
PickerKeepsPaneCursors ==
    Running =>
        /\ v.mode = ModeNormal =>
              PaneCursors(Update(v, "G")) = PaneCursors(v)
        /\ v.mode = ModeSectionSelect =>
              \A k \in PickerMoveKeys \cup PickerCloseKeys :
                  PaneCursors(Update(v, k)) = PaneCursors(v)

MatchLine(w) ==
    IF Len(w.matchingLines) > 0
    THEN w.matchingLines[w.currentMatch + 1]
    ELSE Sections(w)[w.filteredIndices[w.currentMatch + 1] + 1].StartLine

\* x clamped into [0, max(0, totalLines - viewportHeight)]
ClampScroll(w, x) ==
    LET hi == IF Len(Lines(w)) - viewportHeight(w) > 0
              THEN Len(Lines(w)) - viewportHeight(w) ELSE 0
    IN IF x < 0 THEN 0 ELSE IF x > hi THEN hi ELSE x

\* w is v after a jump to the match that is current in w
CentredOnMatch(w) ==
    w.scrollOffset = ClampScroll(w, MatchLine(w) - (viewportHeight(w) \div 2))

\* C13: a search confirm that finds a match, n and N set the content
\* offset to matchLine - floor(viewportHeight / 2) clamped into
\* [0, max(0, totalLines - viewportHeight)], matchLine being the matched
\* line (All) or the start line of the matched section.
JumpCentresMatch ==
    Running =>
        /\ (v.mode = ModeNormal /\ totalMatches(v) > 0) =>
              CentredOnMatch(Update(v, "n")) /\ CentredOnMatch(Update(v, "N"))
        /\ (v.mode = ModeSearch /\ totalMatches(Update(v, "enter")) > 0) =>
              CentredOnMatch(Update(v, "enter"))

\* C13 witness: n is about to jump to a section match whose start line,
\* less half the viewport, is neither below 0 nor above the last offset.
JumpCentresMatchWitness ==
    /\ Running /\ v.mode = ModeNormal
    /\ Len(v.filteredIndices) > 1
    /\ LET w == Update(v, "n") IN
       /\ w.scrollOffset > 0
       /\ w.scrollOffset < ScrollBound
       /\ w.scrollOffset = MatchLine(w) - (viewportHeight(w) \div 2)
       /\ w.scrollOffset # v.scrollOffset

\* C17: while searchQuery is empty the search is inactive: both match
\* lists are empty, so the match count is 0 and n and N do nothing.
EmptyQueryInactive ==
    v.searchQuery = <<>> =>
        /\ v.matchingLines = <<>>
        /\ v.filteredIndices = <<>>
        /\ totalMatches(v) = 0

\* C18: in Normal mode, on a page with a heading, g opens the section
\* selector.
LowercaseGOpensSelector ==
    (Running /\ v.mode = ModeNormal /\ Len(ManSections(v)) > 0) =>
        Update(v, "g").mode = ModeSectionSelect

\* C15: with the window size held fixed and a viewport of at least one
\* row, the content cursor is a row of the viewport:
\* 0 <= contentCursor <= viewportHeight - 1.
ContentCursorInViewport ==
    viewportHeight(v) >= 1 =>
        0 <= v.contentCursor /\ v.contentCursor <= viewportHeight(v) - 1

\* C15 witness: in a window smaller than the page the content has been
\* scrolled with the cursor on the last row of the viewport, and a further
\* down scrolls instead of moving the cursor.
ContentCursorInViewportWitness ==
    /\ Running /\ v.mode = ModeNormal /\ v.focusPane = PaneContent
    /\ viewportHeight(v) > 1
    /\ v.contentCursor = viewportHeight(v) - 1
    /\ v.scrollOffset > 0
    /\ Update(v, "down").scrollOffset = v.scrollOffset + 1
    /\ Update(v, "down").contentCursor = v.contentCursor

\* the offset that keeps cursor visible in a window of height rows whose
\* offset was offset: snapped to the cursor when the cursor is above it,
\* advanced to cursor - height + 1 when the cursor is at or past its end
FollowCursor(offset, cursor, height) ==
    IF cursor < offset THEN cursor
    ELSE IF cursor >= offset + height THEN cursor - height + 1
    ELSE offset

NavigationStateInBounds ==
    /\ 0 <= v.scrollOffset /\ v.scrollOffset <= ScrollBound
    /\ 0 <= v.contentCursor /\ v.contentCursor <= viewportHeight(v) - 1
    /\ v.sidebarScrollOffset <= v.sidebarCursor
    /\ v.sidebarCursor < v.sidebarScrollOffset + viewportHeight(v)
    /\ v.mode = ModeSectionSelect =>
          /\ v.sectionScrollOffset <= v.sectionCursor
          /\ v.sectionCursor < v.sectionScrollOffset + sectionModalHeight(v)

\* C19: every section parseOptionSections returns has StartLine <=
\* EndLine, both in [0, number of lines - 1], and a non-empty Option whose
\* first character is '-'.
SectionsWellFormed ==
    \A k \in 1..Len(Sections(v)) :
        LET s == Sections(v)[k] IN
        /\ 0 <= s.StartLine
        /\ s.StartLine <= s.EndLine
        /\ s.EndLine <= Len(Lines(v)) - 1
        /\ s.Option # <<>>
        /\ s.Option[1] = "-"

\* C19 witness: a scanned page of two options, the second with an
\* explanation that runs to the last line of the page.
SectionsWellFormedWitness ==
    /\ Len(Sections(v)) = 2
    /\ Sections(v)[2].StartLine < Sections(v)[2].EndLine
    /\ Sections(v)[2].EndLine = Len(Lines(v)) - 1
    /\ Sections(v)[2].Explanation # <<>>

\* the heading rule as claimed: non-empty, first character an uppercase
\* letter, every character an uppercase letter or a space
HeadingRule(trimmed) ==
    /\ trimmed # <<>>
    /\ IsUpper(trimmed[1])
    /\ \A i \in 1..Len(trimmed) : IsUpper(trimmed[i]) \/ trimmed[i] = " "

\* C20: a line yields a ManSection if and only if, trimmed, it is
\* non-empty, begins with an uppercase letter and consists of uppercase
\* letters and spaces (a single uppercase letter included); its Name is
\* the trimmed line and its StartLine the line's index.
HeadingIffRule ==
    LET found == parseManSections(Lines(v)) IN
    /\ \A i \in 0..(Len(Lines(v)) - 1) :
          HeadingRule(TrimSpace(Lines(v)[i + 1])) <=>
              \E k \in 1..Len(found) : found[k].StartLine = i
    /\ \A k \in 1..Len(found) :
          found[k].Name = TrimSpace(Lines(v)[found[k].StartLine + 1])

\* what the scanners return on the page of scenario A
ScenarioHeadings ==
    << [Name |-> <<"D","E","S","C","R","I","P","T","I","O","N">>, StartLine |-> 0] >>

\* C21 (as claimed): the page of scenario A has exactly one heading,
\* DESCRIPTION at line 0, and exactly two sections: '-r, --recursive' with
\* body 'Copy directories recursively. More detail.' on lines 1 to 3, and
\* '-v' with body 'Verbose output.' on lines 4 to 4.
ScenarioASplitsFlagsFromBody ==
    Lines(v) = ScenarioA =>
        /\ parseManSections(Lines(v)) = ScenarioHeadings
        /\ parseOptionSections(Lines(v)) =
              << [Option      |-> <<"-","r",","," ","-","-","r","e","c","u","r","s","i","v","e">>,
                  Explanation |-> <<"C","o","p","y"," ","d","i","r","e","c","t","o","r","i","e","s"," ","r","e","c","u","r","s","i","v","e","l","y","."," ","M","o","r","e"," ","d","e","t","a","i","l",".">>,
                  StartLine   |-> 1,
                  EndLine     |-> 3],
                 [Option      |-> <<"-","v">>,
                  Explanation |-> <<"V","e","r","b","o","s","e"," ","o","u","t","p","u","t",".">>,
                  StartLine   |-> 4,
                  EndLine     |-> 4] >>

\* C21 (amended): the page of scenario A has exactly one heading,
\* DESCRIPTION at line 0, and exactly two sections, each the whole trimmed
\* option line with an empty body: '-r, --recursive   Copy directories
\* recursively.' on lines 1 to 1 and '-v   Verbose output.' on lines 4 to 4.
ScenarioAKeepsWholeLines ==
    Lines(v) = ScenarioA =>
        /\ ManSections(v) = ScenarioHeadings
        /\ Sections(v) =
              << [Option      |-> <<"-","r",","," ","-","-","r","e","c","u","r","s","i","v","e"," "," "," ","C","o","p","y"," ","d","i","r","e","c","t","o","r","i","e","s"," ","r","e","c","u","r","s","i","v","e","l","y",".">>,
                  Explanation |-> <<>>,
                  StartLine   |-> 1,
                  EndLine     |-> 1],
                 [Option      |-> <<"-","v"," "," "," ","V","e","r","b","o","s","e"," ","o","u","t","p","u","t",".">>,
                  Explanation |-> <<>>,
                  StartLine   |-> 4,
                  EndLine     |-> 4] >>

\* C21 witness: the page of scenario A has been scanned into two sections
\* and the second one has been jumped to from the option list.
ScenarioAKeepsWholeLinesWitness ==
    /\ Lines(v) = ScenarioA
    /\ Len(Sections(v)) = 2
    /\ v.sidebarCursor = 1
    /\ v.focusPane = PaneContent

\* C22: on the page of scenario A, an OptionExact search for '-r' that is
\* confirmed gives the section-index match list <<0>> and currentMatch 0.
ScenarioBExactMatch ==
    (/\ Running /\ Lines(v) = ScenarioA
     /\ v.mode = ModeSearch /\ v.searchType = SearchOptionExact
     /\ v.searchInput = ScenarioQuery) =>
        LET w == Update(v, "enter") IN
        /\ w.filteredIndices = <<0>>
        /\ w.matchingLines = <<>>
        /\ w.currentMatch = 0
        /\ w.searchQuery = ScenarioQuery

\* C22 witness: O has been pressed in Normal mode and '-r' typed; Enter is
\* about to confirm it.
ScenarioBExactMatchWitness ==
    /\ Running /\ Lines(v) = ScenarioA
    /\ v.mode = ModeSearch /\ v.searchType = SearchOptionExact
    /\ v.searchInput = ScenarioQuery
    /\ Update(v, "enter").filteredIndices = <<0>>

\* the comma/space-separated tokens of a flag field: its maximal runs of
\* characters other than ',' and ' '
Tokens(f) ==
    { SubSeq(f, a, b) : <<a, b>> \in
        { p \in (1..Len(f)) \X (1..Len(f)) :
            /\ p[1] <= p[2]
            /\ \A i \in p[1]..p[2] : f[i] \notin {",", " "}
            /\ p[1] = 1 \/ f[p[1] - 1] \in {",", " "}
            /\ p[2] = Len(f) \/ f[p[2] + 1] \in {",", " "} } }

\* t with all its leading dashes removed
Undashed(t) ==
    IF \A i \in 1..Len(t) : t[i] = "-" THEN <<>>
    ELSE LET first == CHOOSE i \in 1..Len(t) :
                          t[i] # "-" /\ \A j \in 1..(i - 1) : t[j] = "-"
         IN SubSeq(t, first, Len(t))

\* some token of the flag field of s equals the query, dashes aside
SomeTokenEquals(s, query) ==
    \E t \in Tokens(extractOptionFlags(s.Option)) : Undashed(t) = Undashed(query)

\* the query is a substring of the flag field of s, case aside
FlagFieldContains(s, query) ==
    \E from \in 1..(Len(extractOptionFlags(s.Option)) + 1) :
        LET f == extractOptionFlags(s.Option) IN
        /\ from + Len(query) - 1 <= Len(f)
        /\ \A i \in 1..Len(query) :
               LowerChar(f[from + i - 1]) = LowerChar(query[i])

\* the sections of FlagsPage the confirm of the typed query finds
Found == Update(v, "enter").filteredIndices
FoundSet == { Found[i] : i \in 1..Len(Found) }

\* the index of the section of FlagsPage whose flag text is '-L, --location'
LocationIdx ==
    CHOOSE i \in 0..(Len(FlagsPage) - 1) :
        parseOptionSections(FlagsPage)[i + 1].Option = TrimSpace(FlagsPage[1])

\* what both statements of C23 say of OptionPartial and of the examples
PartialAndExamples ==
    /\ v.searchType = SearchOption =>
          \A i \in 0..(Len(Sections(v)) - 1) :
              i \in FoundSet <=> FlagFieldContains(Sections(v)[i + 1], v.searchInput)
    /\ (v.searchType = SearchOptionExact /\ v.searchInput = <<"L">>) =>
          LocationIdx \in FoundSet
    /\ (v.searchType = SearchOptionExact /\ v.searchInput = <<"o","c">>) =>
          LocationIdx \notin FoundSet
    /\ (v.searchType = SearchOption /\ v.searchInput = <<"o","c">>) =>
          LocationIdx \in FoundSet

\* C23 (as claimed): OptionExact matches a section iff some
\* comma/space-separated token of its flag field equals the query, dashes
\* stripped from both, case-sensitively; OptionPartial is a
\* case-insensitive substring test on the flag field; for '-L, --location'
\* OptionExact(L) matches, OptionExact(oc) does not, OptionPartial(oc) does.
OptionExactIsTokenEquality ==
    (Running /\ v.mode = ModeSearch) =>
        /\ v.searchType = SearchOptionExact =>
              \A i \in 0..(Len(Sections(v)) - 1) :
                  i \in FoundSet <=> SomeTokenEquals(Sections(v)[i + 1], v.searchInput)
        /\ PartialAndExamples

\* C23 (amended): OptionExact matches a section iff the query is empty or
\* some token of its flag field equals the query, dashes stripped from
\* both; the rest as claimed.
OptionExactTokenEqualityOrEmpty ==
    (Running /\ v.mode = ModeSearch) =>
        /\ v.searchType = SearchOptionExact =>
              \A i \in 0..(Len(Sections(v)) - 1) :
                  i \in FoundSet <=>
                      \/ v.searchInput = <<>>
                      \/ SomeTokenEquals(Sections(v)[i + 1], v.searchInput)
        /\ PartialAndExamples

\* C23 witness: an OptionExact search for 'L' has been confirmed on
\* FlagsPage and has found '-L, --location' alone.
OptionExactTokenEqualityOrEmptyWitness ==
    /\ Running /\ v.mode = ModeNormal
    /\ Lines(v) = FlagsPage
    /\ v.searchType = SearchOptionExact
    /\ v.searchQuery = <<"L">>
    /\ v.filteredIndices = <<LocationIdx>>

\* C24: the scan of every page terminates with a result and never fails:
\* every iteration of the scanner's loop moves the scan index forward, to
\* at most the number of lines, so the scan returns after at most that
\* many iterations, with at most one section and one heading per line; a
\* page without lines gives no section and no heading; a second scan of
\* a scanned page returns the sections and headings of the first.
ScanAdvancesAndEnds ==
    /\ \A i \in 0..(Len(Lines(v)) - 1) :
          LET next == scanIteration(Lines(v), i, <<>>) IN
          /\ next.i > i
          /\ next.i <= Len(Lines(v))
          /\ Len(next.sections) <= 1
    /\ Len(parseOptionSections(Lines(v))) <= Len(Lines(v))
    /\ Len(parseManSections(Lines(v))) <= Len(Lines(v))
    /\ parseOptionSections(<<>>) = <<>> /\ parseManSections(<<>>) = <<>>
    /\ (Sections(v) # <<>> \/ ManSections(v) # <<>>) =>
          /\ parseOptionSections(Lines(v)) = Sections(v)
          /\ parseManSections(Lines(v)) = ManSections(v)

\* C24 witness: a scanned page whose last line is an option, after a list
\* of long options and a blank line.
ScanAdvancesAndEndsWitness ==
    /\ Len(Lines(v)) >= 3
    /\ Len(Sections(v)) >= 1
    /\ Sections(v)[Len(Sections(v))].StartLine = Len(Lines(v)) - 1
    /\ \E i \in 1..Len(Lines(v)) : Lines(v)[i] = <<>>
    /\ \E i \in 1..Len(Lines(v)) : multiOptionListRe(Lines(v)[i])

\* line i of the page is a candidate the option rule does not reject: it
\* matches the option-definition rule, its trimmed form starts with '-',
\* and it is not a list of three or more long options
OptionCandidate(i) ==
    LET line == Lines(v)[i + 1]
        trimmed == TrimSpace(line)
    IN /\ optionDefRe(line)
       /\ trimmed # <<>> /\ trimmed[1] = "-"
       /\ ~multiOptionListRe(trimmed)

\* the number of sections the scanner returns that start at line i
StartingAt(i) ==
    LET found == parseOptionSections(Lines(v))
    IN Cardinality({ k \in 1..Len(found) : found[k].StartLine = i })

\* C25 (as claimed): every line that matches the option-definition rule,
\* starts with '-' when trimmed and is not a list of three or more long
\* options is the StartLine of exactly one section, whatever its length.
CandidateAlwaysStartsSection ==
    \A i \in 0..(Len(Lines(v)) - 1) :
        OptionCandidate(i) => StartingAt(i) = 1

\* C25 (amended): such a line is the StartLine of exactly one section when
\* its trimmed form is at most 60 characters long, and of none when it is
\* longer; no other line starts a section.
ShortCandidateStartsSection ==
    \A i \in 0..(Len(Lines(v)) - 1) :
        StartingAt(i) =
            IF OptionCandidate(i) /\ Len(TrimSpace(Lines(v)[i + 1])) <= 60
            THEN 1 ELSE 0

\* C25 witness: a scanned page with an option line of 60 characters, which
\* starts a section, one of 61 characters, which starts none, and a list
\* of long options.
ShortCandidateStartsSectionWitness ==
    /\ \E k \in 1..Len(Sections(v)) : Len(Sections(v)[k].Option) = 60
    /\ \E i \in 1..Len(Lines(v)) :
          Len(TrimSpace(Lines(v)[i])) = 61 /\ optionDefRe(Lines(v)[i])
    /\ \E i \in 1..Len(Lines(v)) : multiOptionListRe(Lines(v)[i])
    /\ \A k \in 1..Len(Sections(v)) : Len(Sections(v)[k].Option) <= 60

\* line b (0-based) of the page is blank
BlankAt(b) == TrimSpace(Lines(v)[b + 1]) = <<>>

\* the index of the first non-blank line after line b, or the number of
\* lines when there is none
NextNonBlank(b) ==
    LET later == { j \in (b + 1)..(Len(Lines(v)) - 1) : ~BlankAt(j) }
    IN IF later = {} THEN Len(Lines(v))
       ELSE CHOOSE j \in later : \A m \in later : j <= m

\* section s has accumulated every line up to the blank run that starts at
\* line b: b is blank, the line before it is not, and it lies in s
RunMetBy(s, b) ==
    /\ BlankAt(b) /\ ~BlankAt(b - 1)
    /\ s.StartLine < b /\ s.EndLine >= b - 1

\* the text after the run that starts at b continues section s: it exists,
\* is more than 2 deeper than the option line and is no option definition
ContinuesAfter(s, b) ==
    LET j == NextNonBlank(b) IN
    /\ j < Len(Lines(v))
    /\ Indent(Lines(v)[j + 1]) > Indent(Lines(v)[s.StartLine + 1]) + 2
    /\ ~optionDefRe(Lines(v)[j + 1])

\* C26: a run of blank lines met while a section accumulates is consumed
\* whole when the next non-blank line exists, is indented more than 2
\* beyond the option line and is not an option definition; otherwise the
\* section ends on the line before the run.
BlankRunConsumedIffContinues ==
    LET found == parseOptionSections(Lines(v)) IN
    \A k \in 1..Len(found) : \A b \in 1..(Len(Lines(v)) - 1) :
        RunMetBy(found[k], b) =>
            IF ContinuesAfter(found[k], b)
            THEN found[k].EndLine >= NextNonBlank(b) - 1
            ELSE found[k].EndLine = b - 1

\* C26 witness: a scanned page with a section that consumed one blank run
\* and ended before another.
BlankRunConsumedIffContinuesWitness ==
    \E k \in 1..Len(Sections(v)) : \E b, c \in 1..(Len(Lines(v)) - 1) :
        LET s == Sections(v)[k] IN
        /\ RunMetBy(s, b) /\ ContinuesAfter(s, b) /\ s.EndLine >= b
        /\ RunMetBy(s, c) /\ ~ContinuesAfter(s, c) /\ s.EndLine = c - 1

\* the trimmed non-blank lines section s consumed after its option line
ConsumedText(s) ==
    LET after == [n \in 1..(s.EndLine - s.StartLine) |->
                     TrimSpace(Lines(v)[s.StartLine + n + 1])]
        kept  == { n \in DOMAIN after : after[n] # <<>> }
        RECURSIVE Pick(_)
        Pick(n) == IF n > Len(after) THEN <<>>
                   ELSE IF n \in kept THEN <<after[n]>> \o Pick(n + 1)
                   ELSE Pick(n + 1)
    IN Pick(1)

\* C27: the body of every section is its trimmed non-blank consumed lines
\* joined by exactly one space, so it neither begins nor ends with a space
\* and holds no two spaces in a row.
BodySingleSpaced ==
    LET found == parseOptionSections(Lines(v)) IN
    \A k \in 1..Len(found) :
        LET body == found[k].Explanation IN
        /\ body = JoinSpace(ConsumedText(found[k]))
        /\ body # <<>> => body[1] # " " /\ body[Len(body)] # " "

\* the two fields of the logical content position
ContentPosition(w) == <<w.scrollOffset, w.contentCursor>>

\* C28: in the content pane, with L = scrollOffset + contentCursor, down
\* with L below the last line adds 1 to contentCursor when it is below
\* viewportHeight - 1 and to scrollOffset otherwise; up with L > 0 takes 1
\* from contentCursor when it is above 0 and from scrollOffset otherwise;
\* down at the last line and up at line 0 change neither field.
ContentLineStep ==
    (Running /\ v.mode = ModeNormal /\ v.focusPane = PaneContent) =>
        LET L    == v.scrollOffset + v.contentCursor
            last == Len(Lines(v)) - 1
            off  == v.scrollOffset
            cur  == v.contentCursor
        IN
        /\ \A k \in {"down", "j"} :
              /\ L < last =>
                    ContentPosition(Update(v, k)) =
                        IF cur < viewportHeight(v) - 1
                        THEN <<off, cur + 1>> ELSE <<off + 1, cur>>
              /\ L = last => ContentPosition(Update(v, k)) = <<off, cur>>
        /\ \A k \in {"up", "k"} :
              /\ L > 0 =>
                    ContentPosition(Update(v, k)) =
                        IF cur > 0 THEN <<off, cur - 1>> ELSE <<off - 1, cur>>
              /\ L = 0 => ContentPosition(Update(v, k)) = <<off, cur>>

\* C28 witness: the content pane scrolled down with the cursor on the
\* bottom row of a viewport of two or more rows, lines left below, so that
\* down scrolls and up moves the cursor.
ContentLineStepWitness ==
    /\ Running /\ v.mode = ModeNormal /\ v.focusPane = PaneContent
    /\ v.scrollOffset > 0
    /\ v.contentCursor = viewportHeight(v) - 1
    /\ v.contentCursor > 0
    /\ v.scrollOffset + v.contentCursor < Len(Lines(v)) - 1
    /\ ContentPosition(Update(v, "down")) = <<v.scrollOffset + 1, v.contentCursor>>

\* w is v after a jump to line target: the content offset is the target
\* clamped to the last full page, the content pane is focused, mode is
\* Normal and the content cursor and the search state are as they were
JumpedTo(w, target) ==
    /\ ~w.panicked
    /\ w.scrollOffset = ClampScroll(v, target)
    /\ w.focusPane = PaneContent
    /\ w.mode = ModeNormal
    /\ w.contentCursor = v.contentCursor
    /\ w.searchQuery = v.searchQuery
    /\ w.matchingLines = v.matchingLines
    /\ w.filteredIndices = v.filteredIndices
    /\ w.currentMatch = v.currentMatch

\* the confirm from the option list jumps to the start of the section
\* under the option-list cursor
OptionListJump ==
    (Running /\ v.mode = ModeNormal /\ v.focusPane = PaneSidebar
       /\ Len(Displayed) > 0) =>
        \A k \in {"enter", "right", "l"} :
            /\ ~Update(v, k).panicked
            /\ JumpedTo(Update(v, k),
                        Sections(v)[Displayed[v.sidebarCursor + 1] + 1].StartLine)

\* the confirm from the section-list pane jumps to the heading under the
\* section cursor
SectionListJump ==
    (Running /\ v.mode = ModeNormal /\ v.focusPane = PaneSections
       /\ Len(ManSections(v)) > 0) =>
        \A k \in {"enter", "l"} :
            JumpedTo(Update(v, k), ManSections(v)[v.sectionCursor + 1].StartLine)

\* the confirm from the section picker jumps to the heading under the
\* section cursor
PickerJump ==
    (Running /\ v.mode = ModeSectionSelect /\ Len(ManSections(v)) > 0) =>
        \A k \in {"enter", "l"} :
            JumpedTo(Update(v, k), ManSections(v)[v.sectionCursor + 1].StartLine)

\* C29: confirming a jump from the option list, from the section-list pane
\* or from the section picker sets scrollOffset to min(target start line,
\* max(0, totalLines - viewportHeight)), focuses the content pane in
\* Normal mode and leaves contentCursor, searchQuery, both match lists and
\* currentMatch unchanged.
JumpSetsClampedOffset ==
    OptionListJump /\ SectionListJump /\ PickerJump

\* the fields a search leaves alone until it is confirmed
SearchFrame(w) ==
    <<w.searchQuery, w.matchingLines, w.filteredIndices, w.currentMatch,
      w.scrollOffset, w.focusPane>>

\* each of the four search keys, pressed in Normal mode, gives search mode
\* with an empty input buffer
SearchKeysOpenEmptyBuffer ==
    (Running /\ v.mode = ModeNormal) =>
        \A k \in {"/", "o", "O", "d"} :
            LET w == Update(v, k) IN
            /\ w.mode = ModeSearch
            /\ w.searchInput = <<>>
            /\ SearchFrame(w) = SearchFrame(v)

\* in search mode backspace removes the last character of the buffer, and
\* no key but the confirm changes the search state, the offset or the focus
SearchEditKeepsFrame ==
    (Running /\ v.mode = ModeSearch) =>
        /\ Update(v, "backspace") =
              [v EXCEPT !.searchInput =
                            IF @ = <<>> THEN <<>> ELSE SubSeq(@, 1, Len(@) - 1)]
        /\ \A k \in Keys \ {"enter"} :
              SearchFrame(Update(v, k)) = SearchFrame(v)

\* C30: the four search keys open search mode with an empty buffer; in
\* search mode every key that is a single character, command letters and
\* characters outside ASCII alike, is appended to the buffer and does
\* nothing else, backspace removes the last character, and until the
\* confirm searchQuery, the match lists, currentMatch, scrollOffset and the
\* focused pane do not change.
SearchInputTakesEveryCharacter ==
    /\ SearchKeysOpenEmptyBuffer
    /\ SearchEditKeepsFrame
    /\ (Running /\ v.mode = ModeSearch) =>
          \A k \in Keys \ NamedKeys :
              Update(v, k) = [v EXCEPT !.searchInput = Append(@, k)]

\* C31: ctrl+c sets quitting in every mode; q sets it only in Normal mode:
\* in the help it closes the help, in search mode it is appended to the
\* input buffer, in the section selector it does nothing; and the view of
\* a quitting Viewer is empty.
QuitKeysByMode ==
    /\ Running =>
          /\ Update(v, "ctrl+c") = [v EXCEPT !.quitting = TRUE]
          /\ v.mode = ModeNormal => Update(v, "q") = [v EXCEPT !.quitting = TRUE]
          /\ v.mode = ModeHelp => Update(v, "q") = [v EXCEPT !.mode = ModeNormal]
          /\ v.mode = ModeSearch =>
                Update(v, "q") = [v EXCEPT !.searchInput = Append(@, "q")]
          /\ v.mode = ModeSectionSelect => Update(v, "q") = v
          /\ View(v) # <<>>
    /\ v.quitting => View(v) = <<>>

\* C31 witness: the program was left with ctrl+c from the section selector
\* and its view is empty.
QuitKeysByModeWitness ==
    /\ v.quitting /\ ~v.panicked
    /\ v.mode = ModeSectionSelect
    /\ View(v) = <<>>

\* in w the option-list cursor is on the row of the displayed list that
\* holds the section of the current match
CursorOnCurrentMatch(w) ==
    LET displayed == getDisplayedSectionIndices(w) IN
    /\ ~w.panicked
    /\ InRange(w.sidebarCursor, displayed)
    /\ displayed[w.sidebarCursor + 1] = w.filteredIndices[w.currentMatch + 1]

\* C32: after the confirm of a field-restricted search that finds a
\* section, and after next-match or previous-match over section matches,
\* the option-list cursor designates the current match in the displayed
\* list: displayed[sidebarCursor] = filteredIndices[currentMatch].
SidebarCursorOnCurrentMatch ==
    Running =>
        /\ (v.mode = ModeSearch /\ v.searchType # SearchAll) =>
              LET w == Update(v, "enter") IN
              Len(w.filteredIndices) > 0 => CursorOnCurrentMatch(w)
        /\ (v.mode = ModeNormal /\ Len(v.filteredIndices) > 0
              /\ Len(v.matchingLines) = 0) =>
              \A k \in {"n", "N"} : CursorOnCurrentMatch(Update(v, k))

\* C33: the sections the scanner returns are in document order and
\* disjoint, each ending before the next starts, and no line that the
\* heading rule or the option-definition rule accepts lies after the first
\* line of a section and up to its last.
SectionsDisjointAndClean ==
    LET found == parseOptionSections(Lines(v)) IN
    /\ \A k \in 1..(Len(found) - 1) : found[k].EndLine < found[k + 1].StartLine
    /\ \A k \in 1..Len(found) :
          \A i \in (found[k].StartLine + 1)..found[k].EndLine :
              /\ ~HeadingRule(TrimSpace(Lines(v)[i + 1]))
              /\ ~optionDefRe(Lines(v)[i + 1])

\* the line of the current match of w is one of the lines of the viewport
MatchInWindow(w) ==
    /\ ~w.panicked
    /\ w.scrollOffset <= MatchLine(w)
    /\ MatchLine(w) <= w.scrollOffset + viewportHeight(w) - 1

\* C34: with a viewport of one row or more, right after a search confirm
\* that finds a match, a next-match or a previous-match, the line of the
\* current match lies in the window scrollOffset .. scrollOffset +
\* viewportHeight - 1.
MatchLineInWindow ==
    (Running /\ viewportHeight(v) >= 1) =>
        /\ (v.mode = ModeNormal /\ totalMatches(v) > 0) =>
              \A k \in {"n", "N"} : MatchInWindow(Update(v, k))
        /\ (v.mode = ModeSearch /\ totalMatches(Update(v, "enter")) > 0) =>
              MatchInWindow(Update(v, "enter"))

\* C34 witness: in a viewport of one row, n has just moved to a second
\* match that is not on the first line; the window is that line alone.
MatchLineInWindowWitness ==
    /\ Running /\ v.mode = ModeNormal
    /\ viewportHeight(v) = 1
    /\ totalMatches(v) > 1 /\ v.currentMatch > 0
    /\ MatchLine(v) > 0
    /\ v.scrollOffset = MatchLine(v)

\* the logical content position of v is a line of the page
PositionIsLine ==
    LET L == v.scrollOffset + v.contentCursor
        last == IF Len(Lines(v)) - 1 > 0 THEN Len(Lines(v)) - 1 ELSE 0
    IN 0 <= L /\ L <= last

\* C35 (as claimed): whatever keys were handled since the window got its
\* size, the logical content position scrollOffset + contentCursor is a
\* line of the page: 0 <= scrollOffset + contentCursor <= max(0,
\* totalLines - 1).
LogicalPositionAlwaysValid == PositionIsLine

\* C35 (amended): the same, in a window whose viewport has at least one
\* row.
LogicalPositionValid ==
    viewportHeight(v) >= 1 => PositionIsLine

\* C35 witness: in a viewport of one row or more, after a search with
\* matches, the content is scrolled to the last line of the page.
LogicalPositionValidWitness ==
    /\ Running /\ v.mode = ModeNormal
    /\ viewportHeight(v) >= 1
    /\ v.searchQuery # <<>> /\ totalMatches(v) > 0
    /\ v.scrollOffset > 0
    /\ v.scrollOffset + v.contentCursor = Len(Lines(v)) - 1

\* C36: in Normal mode under a search query, the recorded search type is
\* the one the match lists were computed with (the lists are what a search
\* of that type finds for the query), and entering another search mode and
\* cancelling it leaves the recorded type as it was.
SearchTypeIsComputedType ==
    (Running /\ v.mode = ModeNormal /\ v.searchQuery # <<>>) =>
        /\ IF v.searchType = SearchAll
           THEN v.matchingLines = findMatchingLines(v) /\ v.filteredIndices = <<>>
           ELSE v.filteredIndices = findMatchingSections(v) /\ v.matchingLines = <<>>
        /\ \A k \in {"/", "o", "O", "d"} :
              /\ Update(Update(v, k), "esc").searchType = v.searchType
              /\ title(Update(Update(v, k), "esc")) = title(v)

\* the query has no leading dash
Dashless(query) == query = <<>> \/ query[1] # "-"

\* C37: for every section and every query, a match under OptionPartial or
\* under Description is a match under All; for a query without leading
\* dashes a match under OptionExact is a match under OptionPartial; and
\* the empty query matches under all four.
MatchModesOrdered ==
    \A i \in 1..Len(Sections(v)) : \A query \in {v.searchInput, v.searchQuery} :
        LET s == Sections(v)[i] IN
        /\ MatchesOption(s, query) => MatchesQuery(s, query)
        /\ MatchesDescription(s, query) => MatchesQuery(s, query)
        /\ (Dashless(query) /\ MatchesOptionExact(s, query)) => MatchesOption(s, query)
        /\ query = <<>> =>
              /\ MatchesQuery(s, query) /\ MatchesOption(s, query)
              /\ MatchesOptionExact(s, query) /\ MatchesDescription(s, query)

\* C37 witness: a confirmed Description search for a word that only a body
\* holds has found a section whose flags do not match it.
MatchModesOrderedWitness ==
    /\ v.mode = ModeNormal /\ v.searchType = SearchDescription
    /\ v.searchQuery # <<>>
    /\ Len(v.filteredIndices) = 1
    /\ LET s == Sections(v)[v.filteredIndices[1] + 1] IN
       /\ MatchesDescription(s, v.searchQuery)
       /\ ~MatchesOption(s, v.searchQuery)
       /\ MatchesQuery(s, v.searchQuery)

\* the elements of a sequence
Range(s) == { s[i] : i \in 1..Len(s) }

\* C38: the row of the option-list cursor and the row of the content
\* cursor are among the rows the renderer draws for their pane
\* (sidebarCursor - sidebarScrollOffset and contentCursor are at most
\* viewportHeight - 2), and at the last offset the last line of the page
\* is among the drawn content rows.
CursorRowsAreDrawn ==
    (Running /\ viewportHeight(v) >= 1) =>
        /\ v.sidebarCursor - v.sidebarScrollOffset <= viewportHeight(v) - 2
        /\ Len(Displayed) > 0 => v.sidebarCursor \in Range(renderSidebar(v))
        /\ v.contentCursor <= viewportHeight(v) - 2
        /\ v.scrollOffset + v.contentCursor \in Range(renderContent(v))
        /\ Len(Lines(v)) - 1 \in
              Range(renderContent([v EXCEPT !.scrollOffset = ScrollBound]))

\* C39: the selection state is entered only with a non-empty page list:
\* Enter on an empty input changes nothing, a search that fails or finds no
\* page stays at the prompt and sets an error message, one that finds
\* pages opens the list on its first row; in the selection state 0 <=
\* cursor < number of pages and scrollOffset <= cursor < scrollOffset +
\* viewportHeight, and Enter selects pages[cursor].
SelectionStateSound ==
    /\ v.state = StateSelect =>
          /\ Len(v.pages) > 0
          /\ 0 <= v.cursor /\ v.cursor < Len(v.pages)
          /\ v.scrollOffset <= v.cursor
          /\ v.cursor < v.scrollOffset + modelViewportHeight(v)
          /\ ~v.panicked
    /\ (ModelRunning /\ v.state = StateInput) =>
          \A result \in SearchResults :
              LET w == updateInput(v, "enter", result) IN
              /\ v.input = <<>> => w = v
              /\ (v.input # <<>> /\ (result.failed \/ result.pages = <<>>)) =>
                    w.err # "" /\ w = [v EXCEPT !.err = w.err]
              /\ (v.input # <<>> /\ ~result.failed /\ result.pages # <<>>) =>
                    /\ w.state = StateSelect /\ w.pages = result.pages
                    /\ w.cursor = 0 /\ w.scrollOffset = 0
    /\ (ModelRunning /\ v.state = StateSelect) =>
          LET w == updateSelect(v, "enter") IN
          w.selected = <<v.pages[v.cursor + 1]>> /\ w.exited

\* C39 witness: a page was selected from the last row of a list that was
\* opened from the prompt and had to scroll.
SelectionStateSoundWitness ==
    /\ v.state = StateSelect /\ v.input = Keyword
    /\ v.scrollOffset > 0
    /\ v.cursor = Len(v.pages) - 1
    /\ v.selected = <<v.pages[v.cursor + 1]>>

====
